---------------------------- MODULE Spec2Model ----------------------------
(***************************************************************************)
(* The WebSocket relay of ws-backend (class WebSocketService).  The source *)
(* holds three revisions of the service:                                   *)
(*   R1  src/unnamed/part_000          subscriptions, products/sorted/     *)
(*                                     unsorted/errors/pickup_zone types   *)
(*   R2  src/routers/vr.js:1-658       subscriptions, game_end,            *)
(*                                     DestroyedTrash, counter,            *)
(*                                     zone_entered                        *)
(*   R3  src/routers/vr.js:660-1208    no subscriptions, hand_pickup,      *)
(*                                     emergency_stop                      *)
(* A behaviour runs one revision, chosen in Init (variable rev).           *)
(*                                                                         *)
(* Numbers are held in tenths (0.2 is 2, 1 is 10), so that the bounds of   *)
(* the speed check are integers.                                           *)
(*                                                                         *)
(* The transport is the ws library: a socket is OPEN when the 'connection' *)
(* event fires, may become CLOSING, and its 'close' event is emitted in    *)
(* the same turn that sets it CLOSED.  Node runs each callback to          *)
(* completion, so every callback is one action.                            *)
(*                                                                         *)
(* Client ids are client_<Date.now()>_<random>.  Sockets are numbered in   *)
(* the order they are accepted (nextId); in Spec the socket accepted n-th  *)
(* draws the id n, so no id is drawn twice, and in SpecAnyId an accept     *)
(* draws any id, as nothing in generateClientId looks at the registry.     *)
(***************************************************************************)
EXTENDS Integers, Sequences, FiniteSets, TLC

MaxClients == 3

R1 == "part_000"
R2 == "vr.js#1"
R3 == "vr.js#2"
Revisions == {R1, R2, R3}

Ids == 1..MaxClients
\* An exclude argument that is the id of no connection ('zone_entered').
NotAClient == 0

VARIABLES rev, clients, readyState, clientIdOf, nextId, lastOp, sent, pre

vars == <<rev, clients, readyState, clientIdOf, nextId, lastOp, sent, pre>>

---------------------------------------------------------------------------
\* JavaScript values

Undefined == [k |-> "undefined", n |-> 0, s |-> "", a |-> <<>>]
Null == [k |-> "null", n |-> 0, s |-> "", a |-> <<>>]
Num(x) == [k |-> "number", n |-> x, s |-> "", a |-> <<>>]
Str(x) == [k |-> "string", n |-> 0, s |-> x, a |-> <<>>]
Bool(b) == [k |-> "boolean", n |-> IF b THEN 1 ELSE 0, s |-> "", a |-> <<>>]
\* an array of values without elements of their own
Arr(xs) == [k |-> "array", n |-> 0, s |-> "", a |-> xs]
\* the string `client_...` that names connection id
IdStr(id) == [k |-> "string", n |-> id, s |-> "client_", a |-> <<>>]
\* new Date().toISOString()
Timestamp == [k |-> "string", n |-> 0, s |-> "ISO-8601", a |-> <<>>]
\* a template literal `text${v}`
Template(text, v) ==
  [k |-> "string", n |-> 0, s |-> text,
   a |-> <<v>>]

typeof(v) == IF v.k \in {"null", "array"} THEN "object" ELSE v.k

\* ToBoolean(v), as `if (v)` applies it
Truthy(v) ==
  CASE v.k = "undefined" -> FALSE
    [] v.k = "null" -> FALSE
    [] v.k = "number" -> v.n # 0
    [] v.k = "boolean" -> v.n = 1
    [] v.k = "string" -> v.s # ""
    [] OTHER -> TRUE

\* String.prototype.toLowerCase on the strings the model uses
toLowerCase(s) ==
  CASE s = "RED" -> "red"
    [] s = "Green" -> "green"
    [] OTHER -> s

\* An object is a set of <<name, value>> pairs, one pair per name.
Get(obj, name) ==
  IF \E p \in obj : p[1] = name
  THEN (CHOOSE p \in obj : p[1] = name)[2]
  ELSE Undefined

Has(obj, name) == \E p \in obj : p[1] = name

\* data handed to JSON.stringify: an object, or undefined
Data(obj) == [defined |-> TRUE, obj |-> obj]
UndefinedData == [defined |-> FALSE, obj |-> {}]

\* JSON.stringify drops the properties whose value is undefined and writes
\* an undefined array element as null; JSON.stringify(undefined) is
\* undefined, which ws sends as an empty frame.
StringifyValue(v) ==
  IF v.k = "array"
  THEN [v EXCEPT !.a = [i \in 1..Len(v.a) |->
                          IF v.a[i].k = "undefined" THEN Null ELSE v.a[i]]]
  ELSE v

JSONstringify(data) ==
  IF data.defined
  THEN [defined |-> TRUE,
        obj |-> {<<p[1], StringifyValue(p[2])>> :
                   p \in {q \in data.obj : q[2].k # "undefined"}}]
  ELSE UndefinedData

---------------------------------------------------------------------------
\* this.clients: a Map, iterated in insertion order

Range(seq) == {seq[i] : i \in 1..Len(seq)}

Entry(id, ws, subs) == [clientId |-> id, ws |-> ws, subscriptions |-> subs]

MapHas(map, id) == \E i \in 1..Len(map) : map[i].clientId = id

MapGet(map, id) == map[CHOOSE i \in 1..Len(map) : map[i].clientId = id]

MapSet(map, id, entry) ==
  IF MapHas(map, id)
  THEN [i \in 1..Len(map) |-> IF map[i].clientId = id THEN entry ELSE map[i]]
  ELSE Append(map, entry)

\* a delete that deletes nothing (C11 tells the two apart)
MapDelete_Nothing(map, id) == map

\* a delete that, when the key is missing, removes the newest entry
MapDelete_Newest(map, id) ==
  IF \E i \in 1..Len(map) : map[i].clientId = id
  THEN SelectSeq(map, LAMBDA e : e.clientId # id)
  ELSE IF map = <<>> THEN map ELSE SubSeq(map, 1, Len(map) - 1)

MapDelete(map, id) == SelectSeq(map, LAMBDA e : e.clientId # id)

MapKeys(map) == {map[i].clientId : i \in 1..Len(map)}

\* client.subscriptions: a Set.  The model keeps its members and not the
\* order they were added in; Array.from lists them in a fixed order.
SetAdd(set, x) == set \cup {x}

SetDelete(set, x) == set \ {x}

\* array.forEach((sub) => set.add(sub))
SetAddAll(set, xs) == set \cup Range(xs)

\* array.forEach((unsub) => set.delete(unsub))
SetDeleteAll(set, xs) == set \ Range(xs)

RECURSIVE ArrayFrom(_)
ArrayFrom(set) ==
  IF set = {} THEN <<>>
  ELSE LET x == CHOOSE y \in set : TRUE IN <<x>> \o ArrayFrom(set \ {x})

---------------------------------------------------------------------------
\* The service while a callback runs: the registry, the readyState of every
\* socket, the frames handed to ws.send so far, the calls of the broadcast
\* primitives so far (with what each returned), sentCount of the running
\* loop, the number of exceptions caught so far, whether an exception is
\* propagating, and the calls of this.clients.delete so far.

Service(map, ready) ==
  [clients |-> map, readyState |-> ready, out |-> <<>>, calls |-> <<>>,
   sentCount |-> 0, caught |-> 0, threw |-> FALSE, deleted |-> <<>>]

BroadcastCall(fn, excludeClientId, subscriptionType, message, ret) ==
  [fn |-> fn, exclude |-> excludeClientId, topic |-> subscriptionType,
   message |-> message, ret |-> ret]

\* a return of the number of entries the registry is left with
Return_Size(st, fn, excludeClientId, subscriptionType, message) ==
  [st EXCEPT !.calls = Append(@, BroadcastCall(fn, excludeClientId,
                                   subscriptionType, message,
                                   Len(st.clients))),
             !.sentCount = 0]

\* return sentCount
Return(st, fn, excludeClientId, subscriptionType, message) ==
  [st EXCEPT !.calls = Append(@, BroadcastCall(fn, excludeClientId,
                                   subscriptionType, message, st.sentCount)),
             !.sentCount = 0]

Write(id, via, message) == [to |-> id, via |-> via, message |-> message]

\* this.clients.delete(clientId), called by the handler or primitive `by`
Delete(st, by, clientId) ==
  [st EXCEPT !.clients = MapDelete(@, clientId),
             !.deleted = Append(@, [by |-> by, clientId |-> clientId])]

\* client.ws.readyState === WebSocket.OPEN
IsOpen(st, ws) == st.readyState[ws] = "OPEN"

\* sendToClient without the test of readyState
sendToClient_Unchecked(st, clientId, data) ==
  IF MapHas(st.clients, clientId)
  THEN [st EXCEPT !.out = Append(@, Write(MapGet(st.clients, clientId).ws,
                                          "sendToClient",
                                          JSONstringify(data)))]
  ELSE st

sendToClient(st, clientId, data) ==
  IF MapHas(st.clients, clientId)
     /\ IsOpen(st, MapGet(st.clients, clientId).ws)
  THEN [st EXCEPT !.out = Append(@, Write(MapGet(st.clients, clientId).ws,
                                          "sendToClient",
                                          JSONstringify(data)))]
  ELSE st

\* The forEach loops of the three broadcast primitives.  The visitor deletes
\* at most the entry it is visiting, so the entries still to visit are the
\* tail of the snapshot.
RECURSIVE forEachBroadcast(_, _, _)
forEachBroadcast(st, todo, message) ==
  IF todo = <<>> THEN st
  ELSE LET clientId == Head(todo).clientId
           ws == Head(todo).ws IN
    IF IsOpen(st, ws)
    THEN forEachBroadcast(
           [st EXCEPT !.out = Append(@, Write(ws, "broadcast",
                                              message)),
                      !.sentCount = @ + 1],
           Tail(todo), message)
    ELSE forEachBroadcast(
           Delete(st, "broadcast", clientId),
           Tail(todo), message)

\* a loop over the registry by position, as over an array that closes up
\* when an entry is deleted: the entry after a deleted one is passed over
RECURSIVE forEachByPosition(_, _, _)
forEachByPosition(st, i, message) ==
  IF i > Len(st.clients) THEN st
  ELSE LET clientId == st.clients[i].clientId
           ws == st.clients[i].ws IN
    IF IsOpen(st, ws)
    THEN forEachByPosition(
           [st EXCEPT !.out = Append(@, Write(ws, "broadcast",
                                              message)),
                      !.sentCount = @ + 1],
           i + 1, message)
    ELSE forEachByPosition(
           Delete(st, "broadcast", clientId),
           i + 1, message)

\* broadcast over a registry that closes up under the loop
broadcast_ByPosition(st, data) ==
  Return(forEachByPosition(st, 1, JSONstringify(data)),
         "broadcast", NotAClient, "", JSONstringify(data))

\* broadcast that stops after the first entry (C3 tells the two apart)
broadcast_FirstOnly(st, data) ==
  Return(forEachBroadcast(st,
                          IF st.clients = <<>> THEN <<>>
                          ELSE <<Head(st.clients)>>,
                          JSONstringify(data)),
         "broadcast", NotAClient, "", JSONstringify(data))

\* broadcast that goes through the registry twice
broadcast_Twice(st, data) ==
  Return(forEachBroadcast(forEachBroadcast(st, st.clients,
                                           JSONstringify(data)),
                          st.clients, JSONstringify(data)),
         "broadcast", NotAClient, "", JSONstringify(data))

broadcast(st, data) ==
  Return(forEachBroadcast(st, st.clients, JSONstringify(data)),
         "broadcast", NotAClient, "", JSONstringify(data))

RECURSIVE forEachExcluding(_, _, _, _)
forEachExcluding(st, todo, excludeClientId, message) ==
  IF todo = <<>> THEN st
  ELSE LET clientId == Head(todo).clientId
           ws == Head(todo).ws IN
    IF clientId # excludeClientId /\ IsOpen(st, ws)
    THEN forEachExcluding(
           [st EXCEPT !.out = Append(@, Write(ws, "broadcastExcluding",
                                              message)),
                      !.sentCount = @ + 1],
           Tail(todo), excludeClientId, message)
    ELSE IF ~IsOpen(st, ws)
    THEN forEachExcluding(
           Delete(st, "broadcastExcluding", clientId),
           Tail(todo), excludeClientId, message)
    ELSE forEachExcluding(st, Tail(todo), excludeClientId, message)

\* broadcastExcluding whose loop skips nobody (C1 tells the two apart)
broadcastExcluding_NoExclusion(st, excludeClientId, data) ==
  Return(forEachExcluding(st, st.clients, NotAClient, JSONstringify(data)),
         "broadcastExcluding", excludeClientId, "", JSONstringify(data))

\* broadcastExcluding whose loop ends at the first entry it evicts
broadcastExcluding_Aborted(st, excludeClientId, data) ==
  LET bad == {i \in 1..Len(st.clients) : ~IsOpen(st, st.clients[i].ws)}
      todo == IF bad = {} THEN st.clients
              ELSE SubSeq(st.clients, 1,
                          CHOOSE i \in bad : \A k \in bad : i <= k)
  IN Return(forEachExcluding(st, todo, excludeClientId, JSONstringify(data)),
            "broadcastExcluding", excludeClientId, "", JSONstringify(data))

\* broadcastExcluding that passes over the excluded entry without looking at
\* its socket
broadcastExcluding_SkipsSender(st, excludeClientId, data) ==
  Return(forEachExcluding(st,
                          SelectSeq(st.clients,
                                    LAMBDA e : e.clientId # excludeClientId),
                          excludeClientId, JSONstringify(data)),
         "broadcastExcluding", excludeClientId, "", JSONstringify(data))

broadcastExcluding(st, excludeClientId, data) ==
  Return(forEachExcluding(st, st.clients, excludeClientId,
                          JSONstringify(data)),
         "broadcastExcluding", excludeClientId, "", JSONstringify(data))

RECURSIVE forEachSubscription(_, _, _, _)
forEachSubscription(st, todo, subscriptionType, message) ==
  IF todo = <<>> THEN st
  ELSE LET clientId == Head(todo).clientId
           ws == Head(todo).ws IN
    IF Str(subscriptionType) \in Head(todo).subscriptions
       /\ IsOpen(st, ws)
    THEN forEachSubscription(
           [st EXCEPT !.out = Append(@, Write(ws,
                                              "broadcastToSubscription",
                                              message)),
                      !.sentCount = @ + 1],
           Tail(todo), subscriptionType, message)
    ELSE IF ~IsOpen(st, ws)
    THEN forEachSubscription(
           Delete(st, "broadcastToSubscription", clientId),
           Tail(todo), subscriptionType, message)
    ELSE forEachSubscription(st, Tail(todo), subscriptionType, message)

\* broadcastToSubscription whose loop takes every entry for a subscriber
\* (C2 tells the two apart)
broadcastToSubscription_Everyone(st, subscriptionType, data) ==
  Return(forEachSubscription(
           st,
           [i \in 1..Len(st.clients) |->
              Entry(st.clients[i].clientId, st.clients[i].ws,
                    {Str(subscriptionType)})],
           subscriptionType, JSONstringify(data)),
         "broadcastToSubscription", NotAClient, subscriptionType,
         JSONstringify(data))

broadcastToSubscription(st, subscriptionType, data) ==
  Return(forEachSubscription(st, st.clients, subscriptionType,
                             JSONstringify(data)),
         "broadcastToSubscription", NotAClient, subscriptionType,
         JSONstringify(data))

getConnectedClientsCount(st) == Len(st.clients)

---------------------------------------------------------------------------
\* Handlers of client messages.  message is the parsed object.

MinSpeed == 2
MaxSpeed == 10

ErrorData(message) ==
  Data({<<"type", Str("error")>>, <<"message", message>>})

\* a catch that removes the sender when the error reply cannot be written
Catch_Evicts(st, clientId, message) ==
  LET done == sendToClient([st EXCEPT !.caught = @ + 1], clientId,
                           ErrorData(message))
  IN IF MapHas(done.clients, clientId)
        /\ ~IsOpen(done, MapGet(done.clients, clientId).ws)
     THEN Delete(done, "sendToClient", clientId)
     ELSE done

\* throw new Error(message) inside a handler's try, and the handler's
\* catch (error): this.sendToClient(clientId, {type: 'error', message})
Catch(st, clientId, message) ==
  sendToClient([st EXCEPT !.caught = @ + 1], clientId, ErrorData(message))

\* {type, <name>: value, timestamp, source: clientId}
Relayed(type, fields, clientId) ==
  Data({<<"type", Str(type)>>, <<"timestamp", Timestamp>>,
        <<"source", IdStr(clientId)>>} \cup fields)

\* {type, <name>: value, timestamp}
Unsourced(type, fields) ==
  Data({<<"type", Str(type)>>, <<"timestamp", Timestamp>>} \cup fields)

\* the confirmation followed by broadcastExcluding (C5 tells the two apart)
RelayThenConfirm_ConfirmFirst(st, clientId, data, confirmation) ==
  broadcastExcluding(sendToClient(st, clientId, confirmation), clientId, data)

\* broadcastExcluding(clientId, data) followed by the confirmation
RelayThenConfirm(st, clientId, data, confirmation) ==
  sendToClient(broadcastExcluding(st, clientId, data), clientId, confirmation)

\* handleSpeedUpdate without the confirmation (C4 tells the two apart)
handleSpeedUpdate_Unconfirmed(st, clientId, message) ==
  LET speed == Get(message, "speed") IN
  IF typeof(speed) # "number" \/ speed.n < MinSpeed \/ speed.n > MaxSpeed
  THEN Catch(st, clientId, Str("Speed must be a number between 0.2 and 1"))
  ELSE broadcastExcluding(st, clientId,
         Relayed("speed_update", {<<"speed", speed>>}, clientId))

\* handleSpeedUpdate with the bounds excluded (C6 tells the two apart)
handleSpeedUpdate_OpenInterval(st, clientId, message) ==
  LET speed == Get(message, "speed") IN
  IF typeof(speed) # "number" \/ speed.n <= MinSpeed \/ speed.n >= MaxSpeed
  THEN Catch(st, clientId, Str("Speed must be a number between 0.2 and 1"))
  ELSE RelayThenConfirm(st, clientId,
         Relayed("speed_update", {<<"speed", speed>>}, clientId),
         Unsourced("speed_update_confirmed", {<<"speed", speed>>}))

handleSpeedUpdate(st, clientId, message) ==
  LET speed == Get(message, "speed") IN
  IF typeof(speed) # "number" \/ speed.n < MinSpeed \/ speed.n > MaxSpeed
  THEN Catch(st, clientId, Str("Speed must be a number between 0.2 and 1"))
  ELSE RelayThenConfirm(st, clientId,
         Relayed("speed_update", {<<"speed", speed>>}, clientId),
         Unsourced("speed_update_confirmed", {<<"speed", speed>>}))

\* R1, R2
handleTableUpdate(st, clientId, message) ==
  LET debit == Get(message, "debit") IN
  RelayThenConfirm(st, clientId,
    Relayed("debit_update", {<<"debit", debit>>}, clientId),
    Unsourced("debit_update_confirmed", {<<"debit", debit>>}))

\* R3
handleTableUpdate_R3(st, clientId, message) ==
  LET table == Get(message, "table") IN
  RelayThenConfirm(st, clientId,
    Relayed("table_update", {<<"table", table>>}, clientId),
    Unsourced("table_update_confirmed", {<<"table", table>>}))

\* R1, R2
handleGameStartUpdate(st, clientId, message) ==
  LET isGameStarted == Get(message, "isGameStarted") IN
  RelayThenConfirm(st, clientId,
    Relayed("game_start_update", {<<"isGameStarted", isGameStarted>>},
            clientId),
    Unsourced("game_start_update_confirmed",
              {<<"isGameStarted", isGameStarted>>}))

\* R3
handleGameStartUpdate_R3(st, clientId, message) ==
  LET gameStart == Get(message, "gameStart") IN
  IF typeof(gameStart) # "boolean"
  THEN Catch(st, clientId, Str("gameStart must be a boolean"))
  ELSE RelayThenConfirm(st, clientId,
         Relayed("game_start_update", {<<"gameStart", gameStart>>}, clientId),
         Unsourced("game_start_update_confirmed",
                   {<<"gameStart", gameStart>>}))

\* R3
handleGameStartConfirmation(st, clientId, message) ==
  LET gameStart == Get(message, "gameStart") IN
  IF typeof(gameStart) # "boolean"
  THEN Catch(st, clientId, Str("gameStart must be a boolean"))
  ELSE broadcastExcluding(st, clientId,
         Relayed("game_start_confirmation", {<<"gameStart", gameStart>>},
                 clientId))

\* R2, R3
handleGameEndUpdate(st, clientId, message) ==
  LET isGameOver == Get(message, "isGameOver") IN
  RelayThenConfirm(st, clientId,
    Relayed("game_end_update", {<<"isGameOver", isGameOver>>}, clientId),
    Unsourced("game_end_update_confirmed", {<<"isGameOver", isGameOver>>}))

handleZonesToggleUpdate(st, clientId, message) ==
  LET isZoneOn == Get(message, "isZoneOn") IN
  RelayThenConfirm(st, clientId,
    Relayed("zones_toggle_update", {<<"isZoneOn", isZoneOn>>}, clientId),
    Unsourced("zones_toggle_update_confirmed", {<<"isZoneOn", isZoneOn>>}))

\* R1
handleProductsUpdate_R1(st, clientId, message) ==
  LET generatedProductType == Get(message, "generatedProductType") IN
  RelayThenConfirm(st, clientId,
    Relayed("products_update",
            {<<"generatedProductType", generatedProductType>>}, clientId),
    Unsourced("products_update_confirmed",
              {<<"generatedProductType", generatedProductType>>}))

\* R2, R3
handleProductsUpdate(st, clientId, message) ==
  LET object_name == Get(message, "object_name") IN
  RelayThenConfirm(st, clientId,
    Relayed("DestroyedTrash", {<<"object_name", object_name>>}, clientId),
    Unsourced("DestroyedTrash_confirmed", {<<"object_name", object_name>>}))

\* handleSortedObjectsUpdate written like the other relays: to every other
\* connection, then a confirmation to the sender
handleSortedObjectsUpdate_Confirmed(st, clientId, message) ==
  LET sortedObjectType == Get(message, "sortedObjectType") IN
  RelayThenConfirm(st, clientId,
    Relayed("sorted_objects_update",
            {<<"sortedObjectType", sortedObjectType>>}, clientId),
    Unsourced("sorted_objects_update_confirmed",
              {<<"sortedObjectType", sortedObjectType>>}))

\* R1
handleSortedObjectsUpdate(st, clientId, message) ==
  LET sortedObjectType == Get(message, "sortedObjectType") IN
  broadcastToSubscription(st, "sorted_objects_update",
    Relayed("sorted_objects_update",
            {<<"sortedObjectType", sortedObjectType>>}, clientId))

\* R1
handleUnsortedObjectsUpdate(st, clientId, message) ==
  LET unsortedObjectType == Get(message, "unsortedObjectType") IN
  broadcastToSubscription(st, "unsorted_objects_update",
    Relayed("unsorted_objects_update",
            {<<"unsortedObjectType", unsortedObjectType>>}, clientId))

\* R1
handleErrorsUpdate(st, clientId, message) ==
  LET count == Get(message, "count") IN
  IF typeof(count) # "number" \/ count.n < 0
  THEN Catch(st, clientId, Str("Errors count must be a non-negative number"))
  ELSE RelayThenConfirm(st, clientId,
         Relayed("errors_update", {<<"count", count>>}, clientId),
         Unsourced("errors_update_confirmed", {<<"count", count>>}))

validZones == {"red", "green", "yellow"}

\* R1
handlePickUpFromZone(st, clientId, message) ==
  LET zone == Get(message, "zone") IN
  IF ~Truthy(zone) \/ typeof(zone) # "string"
  THEN Catch(st, clientId, Str("Zone must be a string"))
  ELSE IF toLowerCase(zone.s) \notin validZones
  THEN Catch(st, clientId, Str("Zone must be one of: red, green, yellow"))
  ELSE LET normalizedZone == Str(toLowerCase(zone.s)) IN
    RelayThenConfirm(st, clientId,
      Relayed("pickup_zone_update", {<<"zone", normalizedZone>>}, clientId),
      Unsourced("pickup_zone_update_confirmed", {<<"zone", normalizedZone>>}))

\* R2: a field is taken when it is truthy
handleCountersUpdate(st, clientId, message) ==
  LET TotalEchec == Get(message, "TotalEchec")
      TotalReussite == Get(message, "TotalReussite")
      TotalOublie == Get(message, "TotalOublie")
      data0 == Data({})
      data1 == IF Truthy(TotalEchec)
               THEN Relayed("counter", {<<"TotalEchec", TotalEchec>>},
                            clientId)
               ELSE data0
      data2 == IF Truthy(TotalReussite)
               THEN Relayed("counter", {<<"TotalReussite", TotalReussite>>},
                            clientId)
               ELSE data1
      data3 == IF Truthy(TotalOublie)
               THEN Relayed("counter", {<<"TotalOublie", TotalOublie>>},
                            clientId)
               ELSE data2
  IN broadcastExcluding(st, clientId, data3)

\* R3: a field is taken when it is not undefined
handleCountersUpdate_R3(st, clientId, message) ==
  LET TotalEchec == Get(message, "TotalEchec")
      TotalReussite == Get(message, "TotalReussite")
      TotalOublie == Get(message, "TotalOublie")
      data0 == Data({})
      data1 == IF TotalEchec # Undefined
               THEN Relayed("counter", {<<"TotalEchec", TotalEchec>>},
                            clientId)
               ELSE data0
      data2 == IF TotalReussite # Undefined
               THEN Relayed("counter", {<<"TotalReussite", TotalReussite>>},
                            clientId)
               ELSE data1
      data3 == IF TotalOublie # Undefined
               THEN Relayed("counter", {<<"TotalOublie", TotalOublie>>},
                            clientId)
               ELSE data2
  IN broadcastExcluding(st, clientId, data3)

\* R2: data stays undefined when no field is truthy, and the exclude
\* argument is the string 'zone_entered'
handleZoneEntered(st, clientId, message) ==
  LET green == Get(message, "green")
      red == Get(message, "red")
      yellow == Get(message, "yellow")
      data0 == UndefinedData
      data1 == IF Truthy(green)
               THEN Relayed("zone_entered", {<<"green", green>>}, clientId)
               ELSE data0
      data2 == IF Truthy(red)
               THEN Relayed("zone_entered", {<<"red", red>>}, clientId)
               ELSE data1
      data3 == IF Truthy(yellow)
               THEN Relayed("zone_entered", {<<"yellow", yellow>>}, clientId)
               ELSE data2
  IN broadcastExcluding(st, NotAClient, data3)

\* R3
handleZoneEntered_R3(st, clientId, message) ==
  LET green == Get(message, "green")
      red == Get(message, "red")
      orange == Get(message, "orange")
      data0 == UndefinedData
      data1 == IF green # Undefined
               THEN Relayed("zone_entered", {<<"green", green>>}, clientId)
               ELSE data0
      data2 == IF red # Undefined
               THEN Relayed("zone_entered", {<<"red", red>>}, clientId)
               ELSE data1
      data3 == IF orange # Undefined
               THEN Relayed("zone_entered", {<<"orange", orange>>}, clientId)
               ELSE data2
  IN IF data3.defined THEN broadcastExcluding(st, clientId, data3) ELSE st

\* handleHandPickupObject that rejects a handCount of 0 (C7 tells the two
\* apart)
handleHandPickupObject_Positive(st, clientId, message) ==
  LET hand == Get(message, "hand")
      handCount == Get(message, "handCount")
  IN
  IF hand # Str("left") /\ hand # Str("right")
  THEN Catch(st, clientId, Str("hand must be 'left' or 'right'"))
  ELSE IF typeof(handCount) # "number" \/ handCount.n <= 0
  THEN Catch(st, clientId, Str("handCount must be a non-negative number"))
  ELSE RelayThenConfirm(st, clientId,
         Relayed("hand_pickup_object",
                 {<<"hand", hand>>, <<"handCount", handCount>>}, clientId),
         Unsourced("hand_pickup_object_confirmed",
                   {<<"hand", hand>>, <<"handCount", handCount>>}))

\* R3
handleHandPickupObject(st, clientId, message) ==
  LET hand == Get(message, "hand")
      handCount == Get(message, "handCount")
  IN
  IF hand # Str("left") /\ hand # Str("right")
  THEN Catch(st, clientId, Str("hand must be 'left' or 'right'"))
  ELSE IF typeof(handCount) # "number" \/ handCount.n < 0
  THEN Catch(st, clientId, Str("handCount must be a non-negative number"))
  ELSE RelayThenConfirm(st, clientId,
         Relayed("hand_pickup_object",
                 {<<"hand", hand>>, <<"handCount", handCount>>}, clientId),
         Unsourced("hand_pickup_object_confirmed",
                   {<<"hand", hand>>, <<"handCount", handCount>>}))

\* R3
handleEmergencyStop(st, clientId, message) ==
  LET isEmergencyStop == Get(message, "isEmergencyStop") IN
  RelayThenConfirm(st, clientId,
    Relayed("emergency_stop", {<<"isEmergencyStop", isEmergencyStop>>},
            clientId),
    Unsourced("emergency_stop_confirmed",
              {<<"isEmergencyStop", isEmergencyStop>>}))

\* handleSubscription that replies with the set as it was before the topics
\* were added
handleSubscription_StaleReply(st, clientId, subscriptionData) ==
  IF ~MapHas(st.clients, clientId) THEN st
  ELSE
    LET client == MapGet(st.clients, clientId)
        subscriptions ==
          IF subscriptionData.k = "array"
          THEN SetAddAll(client.subscriptions, subscriptionData.a)
          ELSE SetAdd(client.subscriptions, subscriptionData)
        st1 == [st EXCEPT !.clients =
                  MapSet(@, clientId,
                         Entry(clientId, client.ws, subscriptions))]
    IN sendToClient(st1, clientId,
         Data({<<"type", Str("subscription_confirmed")>>,
               <<"subscriptions", Arr(ArrayFrom(client.subscriptions))>>}))

\* R1, R2
handleSubscription(st, clientId, subscriptionData) ==
  IF ~MapHas(st.clients, clientId) THEN st
  ELSE
    LET client == MapGet(st.clients, clientId)
        subscriptions ==
          IF subscriptionData.k = "array"
          THEN SetAddAll(client.subscriptions, subscriptionData.a)
          ELSE SetAdd(client.subscriptions, subscriptionData)
        st1 == [st EXCEPT !.clients =
                  MapSet(@, clientId,
                         Entry(clientId, client.ws, subscriptions))]
    IN sendToClient(st1, clientId,
         Data({<<"type", Str("subscription_confirmed")>>,
               <<"subscriptions", Arr(ArrayFrom(subscriptions))>>}))

\* handleUnsubscription that empties the set (C8 tells the two apart)
handleUnsubscription_Clear(st, clientId, unsubscriptionData) ==
  IF ~MapHas(st.clients, clientId) THEN st
  ELSE sendToClient(
         [st EXCEPT !.clients =
            MapSet(@, clientId,
                   Entry(clientId, MapGet(st.clients, clientId).ws, {}))],
         clientId,
         Data({<<"type", Str("unsubscription_confirmed")>>,
               <<"subscriptions", Arr(<<>>)>>}))

\* handleUnsubscription that takes the topics out of every connection's set
handleUnsubscription_Everyone(st, clientId, unsubscriptionData) ==
  IF ~MapHas(st.clients, clientId) THEN st
  ELSE
    LET Remaining(set) ==
          IF unsubscriptionData.k = "array"
          THEN SetDeleteAll(set, unsubscriptionData.a)
          ELSE SetDelete(set, unsubscriptionData)
        st1 == [st EXCEPT !.clients =
                  [i \in 1..Len(st.clients) |->
                     Entry(st.clients[i].clientId, st.clients[i].ws,
                           Remaining(st.clients[i].subscriptions))]]
    IN sendToClient(st1, clientId,
         Data({<<"type", Str("unsubscription_confirmed")>>,
               <<"subscriptions",
                 Arr(ArrayFrom(MapGet(st1.clients, clientId).subscriptions))>>}))

\* R1, R2
handleUnsubscription(st, clientId, unsubscriptionData) ==
  IF ~MapHas(st.clients, clientId) THEN st
  ELSE
    LET client == MapGet(st.clients, clientId)
        subscriptions ==
          IF unsubscriptionData.k = "array"
          THEN SetDeleteAll(client.subscriptions, unsubscriptionData.a)
          ELSE SetDelete(client.subscriptions, unsubscriptionData)
        st1 == [st EXCEPT !.clients =
                  MapSet(@, clientId,
                         Entry(clientId, client.ws, subscriptions))]
    IN sendToClient(st1, clientId,
         Data({<<"type", Str("unsubscription_confirmed")>>,
               <<"subscriptions", Arr(ArrayFrom(subscriptions))>>}))

\* a pong without its timestamp (C12 tells the two apart)
Pong_Untimed == Data({<<"type", Str("pong")>>})

Pong == Unsourced("pong", {})

\* the reply without the tag (C10 tells the two apart)
UnknownType_Untagged(type) == ErrorData(Str("Unknown message type: "))

UnknownType(type) == ErrorData(Template("Unknown message type: ", type))

\* A frame off the wire: text that is not JSON, the JSON value null, or a
\* JSON value with the properties obj (none for a number or string).
\* Reading message.type of null throws a TypeError.
handleClientMessage_R1(st, clientId, frame) ==
  IF ~MapHas(st.clients, clientId) THEN st
  ELSE IF frame.isNull THEN [st EXCEPT !.threw = TRUE]
  ELSE LET message == frame.obj
           type == Get(message, "type") IN
    CASE type = Str("subscribe") ->
           handleSubscription(st, clientId, Get(message, "data"))
      [] type = Str("unsubscribe") ->
           handleUnsubscription(st, clientId, Get(message, "data"))
      [] type = Str("ping") -> sendToClient(st, clientId, Pong)
      [] type = Str("speed_update") -> handleSpeedUpdate(st, clientId, message)
      [] type = Str("debit_update") -> handleTableUpdate(st, clientId, message)
      [] type = Str("game_start_update") ->
           handleGameStartUpdate(st, clientId, message)
      [] type = Str("zones_toggle_update") ->
           handleZonesToggleUpdate(st, clientId, message)
      [] type = Str("products_update") ->
           handleProductsUpdate_R1(st, clientId, message)
      [] type = Str("sorted_objects_update") ->
           handleSortedObjectsUpdate(st, clientId, message)
      [] type = Str("unsorted_objects_update") ->
           handleUnsortedObjectsUpdate(st, clientId, message)
      [] type = Str("errors_update") ->
           handleErrorsUpdate(st, clientId, message)
      [] type = Str("pickup_zone_update") ->
           handlePickUpFromZone(st, clientId, message)
      [] OTHER -> sendToClient(st, clientId, UnknownType(type))

handleClientMessage_R2(st, clientId, frame) ==
  IF ~MapHas(st.clients, clientId) THEN st
  ELSE IF frame.isNull THEN [st EXCEPT !.threw = TRUE]
  ELSE LET message == frame.obj
           type == Get(message, "type") IN
    CASE type = Str("subscribe") ->
           handleSubscription(st, clientId, Get(message, "data"))
      [] type = Str("unsubscribe") ->
           handleUnsubscription(st, clientId, Get(message, "data"))
      [] type = Str("ping") -> sendToClient(st, clientId, Pong)
      [] type = Str("speed_update") -> handleSpeedUpdate(st, clientId, message)
      [] type = Str("debit_update") -> handleTableUpdate(st, clientId, message)
      [] type = Str("game_start_update") ->
           handleGameStartUpdate(st, clientId, message)
      [] type = Str("game_end_update") ->
           handleGameEndUpdate(st, clientId, message)
      [] type = Str("zones_toggle_update") ->
           handleZonesToggleUpdate(st, clientId, message)
      [] type = Str("DestroyedTrash") ->
           handleProductsUpdate(st, clientId, message)
      [] type = Str("counter") -> handleCountersUpdate(st, clientId, message)
      [] type = Str("zone_entered") -> handleZoneEntered(st, clientId, message)
      [] OTHER -> sendToClient(st, clientId, UnknownType(type))

handleClientMessage_R3(st, clientId, frame) ==
  IF ~MapHas(st.clients, clientId) THEN st
  ELSE IF frame.isNull THEN [st EXCEPT !.threw = TRUE]
  ELSE LET message == frame.obj
           type == Get(message, "type") IN
    CASE type = Str("ping") -> sendToClient(st, clientId, Pong)
      [] type = Str("speed_update") -> handleSpeedUpdate(st, clientId, message)
      [] type = Str("debit_update") ->
           handleTableUpdate_R3(st, clientId, message)
      [] type = Str("game_start_update") ->
           handleGameStartUpdate_R3(st, clientId, message)
      [] type = Str("game_end_update") ->
           handleGameEndUpdate(st, clientId, message)
      [] type = Str("zones_toggle_update") ->
           handleZonesToggleUpdate(st, clientId, message)
      [] type = Str("DestroyedTrash") ->
           handleProductsUpdate(st, clientId, message)
      [] type = Str("counter") ->
           handleCountersUpdate_R3(st, clientId, message)
      [] type = Str("zone_entered") ->
           handleZoneEntered_R3(st, clientId, message)
      [] type = Str("game_start_confirmation") ->
           handleGameStartConfirmation(st, clientId, message)
      [] type = Str("hand_pickup_object") ->
           handleHandPickupObject(st, clientId, message)
      [] type = Str("emergency_stop") ->
           handleEmergencyStop(st, clientId, message)
      [] OTHER -> sendToClient(st, clientId, UnknownType(type))

\* handleClientMessage that dispatches a speed_update before it looks the
\* client up
handleClientMessage_NoLookup(st, clientId, frame) ==
  IF ~frame.isNull /\ Get(frame.obj, "type") = Str("speed_update")
  THEN handleSpeedUpdate(st, clientId, frame.obj)
  ELSE CASE rev = R1 -> handleClientMessage_R1(st, clientId, frame)
         [] rev = R2 -> handleClientMessage_R2(st, clientId, frame)
         [] rev = R3 -> handleClientMessage_R3(st, clientId, frame)

handleClientMessage(st, clientId, frame) ==
  CASE rev = R1 -> handleClientMessage_R1(st, clientId, frame)
    [] rev = R2 -> handleClientMessage_R2(st, clientId, frame)
    [] rev = R3 -> handleClientMessage_R3(st, clientId, frame)

InvalidJson == ErrorData(Str("Invalid JSON format"))

\* ws.on('message') that leaves text that is not JSON unanswered (C9 tells
\* the two apart)
onMessage_Unanswered(st, clientId, frame) ==
  IF ~frame.json
  THEN [st EXCEPT !.caught = @ + 1]
  ELSE LET done == handleClientMessage(st, clientId, frame) IN
    IF done.threw
    THEN sendToClient([done EXCEPT !.threw = FALSE, !.caught = @ + 1],
                      clientId, InvalidJson)
    ELSE done

\* ws.on('message') without its try/catch: what JSON.parse or the dispatch
\* throws leaves the callback.
onMessage_Uncaught(st, clientId, frame) ==
  IF ~frame.json
  THEN [st EXCEPT !.threw = TRUE]
  ELSE handleClientMessage(st, clientId, frame)

\* ws.on('message') whose catch replies, as the handlers' own catch does,
\* with the message of the error that the dispatch threw
onMessage_ErrorMessage(st, clientId, frame) ==
  IF ~frame.json
  THEN sendToClient([st EXCEPT !.caught = @ + 1], clientId, InvalidJson)
  ELSE LET done == handleClientMessage(st, clientId, frame) IN
    IF done.threw
    THEN sendToClient([done EXCEPT !.threw = FALSE, !.caught = @ + 1],
                      clientId,
                      ErrorData(Str("Cannot read properties of null")))
    ELSE done

\* ws.on('message'): JSON.parse throws on text that is not JSON; whatever is
\* thrown inside the try is answered with the same reply.
onMessage(st, clientId, frame) ==
  IF ~frame.json
  THEN sendToClient([st EXCEPT !.caught = @ + 1], clientId, InvalidJson)
  ELSE LET done == handleClientMessage(st, clientId, frame) IN
    IF done.threw
    THEN sendToClient([done EXCEPT !.threw = FALSE, !.caught = @ + 1],
                      clientId, InvalidJson)
    ELSE done

\* ws.on('close')
\* ws.on('close') that empties the registry
onClose_Clear(st, clientId) ==
  [st EXCEPT !.clients = <<>>,
             !.deleted = Append(@, [by |-> "close", clientId |-> clientId])]

\* ws.on('close') that leaves the registry alone
onClose_Nothing(st, clientId) == st

\* ws.on('close') that also empties the subscription sets that remain
onClose_Unsubscribes(st, clientId) ==
  LET done == Delete(st, "close", clientId) IN
  [done EXCEPT !.clients =
     [i \in 1..Len(done.clients) |->
        Entry(done.clients[i].clientId, done.clients[i].ws, {})]]

onClose(st, clientId) == Delete(st, "close", clientId)

\* wss.on('connection') that greets with a broadcast (C14 tells the two
\* apart)
onConnection_Announce(st, clientId, ws) ==
  broadcast(
    [st EXCEPT !.clients = MapSet(@, clientId, Entry(clientId, ws, {}))],
    Unsourced("connection",
              {<<"message", Str("Connected to VR Game Dashboard")>>,
               <<"clientId", IdStr(clientId)>>}))

\* wss.on('connection')
onConnection(st, clientId, ws) ==
  sendToClient(
    [st EXCEPT !.clients = MapSet(@, clientId, Entry(clientId, ws, {}))],
    clientId,
    Unsourced("connection",
              {<<"message", Str("Connected to VR Game Dashboard")>>,
               <<"clientId", IdStr(clientId)>>}))

---------------------------------------------------------------------------
\* The outbound API, called by the HTTP layer (R1 and R2).  A call that
\* throws leaves st with threw set.

Throw(st) == [st EXCEPT !.threw = TRUE]

sendTable(st, table) ==
  broadcast(st, Unsourced("table_update", {<<"table", table>>}))

sendSpeed(st, speed) ==
  IF typeof(speed) # "number" \/ speed.n < MinSpeed \/ speed.n > MaxSpeed
  THEN Throw(st)
  ELSE broadcast(st, Unsourced("speed_update", {<<"speed", speed>>}))

sendGameStart(st, gameStart) ==
  broadcast(st, Unsourced("game_start_update", {<<"gameStart", gameStart>>}))

\* R2
sendGameEnd(st, isGameOver) ==
  broadcast(st, Unsourced("game_end_update", {<<"isGameOver", isGameOver>>}))

\* R1
sendProducts_R1(st, generatedProductType) ==
  broadcast(st, Unsourced("products_update",
                  {<<"generatedProductType", generatedProductType>>}))

\* R2
sendProducts(st, generatedProductType) ==
  broadcast(st, Unsourced("DestroyedTrash",
                  {<<"generatedProductType", generatedProductType>>}))

sendSortedObjects(st, sortedObjectType) ==
  broadcast(st, Unsourced("sorted_objects_update",
                  {<<"sortedObjectType", sortedObjectType>>}))

sendUnsortedObjects(st, unsortedObjectType) ==
  broadcast(st, Unsourced("unsorted_objects_update",
                  {<<"unsortedObjectType", unsortedObjectType>>}))

sendErrors(st, count) ==
  IF typeof(count) # "number" \/ count.n < 0
  THEN Throw(st)
  ELSE broadcast(st, Unsourced("errors_update", {<<"count", count>>}))

\* R1: zone.toLowerCase() is a TypeError unless zone is a string
sendPickUpFromZone_R1(st, zone) ==
  IF typeof(zone) # "string" THEN Throw(st)
  ELSE IF toLowerCase(zone.s) \notin validZones THEN Throw(st)
  ELSE broadcast(st, Unsourced("pickup_zone_update",
                       {<<"zone", Str(toLowerCase(zone.s))>>}))

\* R2: the check of validZones is commented out
sendPickUpFromZone(st, zone) ==
  IF typeof(zone) # "string" THEN Throw(st)
  ELSE broadcast(st, Unsourced("pickup_zone_update",
                       {<<"zone", Str(toLowerCase(zone.s))>>}))

\* The call fn(arg) in revision r
Api(r, fn, st, arg) ==
  CASE fn = "sendTable" -> sendTable(st, arg)
    [] fn = "sendSpeed" -> sendSpeed(st, arg)
    [] fn = "sendGameStart" -> sendGameStart(st, arg)
    [] fn = "sendGameEnd" -> sendGameEnd(st, arg)
    [] fn = "sendProducts" ->
         IF r = R1 THEN sendProducts_R1(st, arg) ELSE sendProducts(st, arg)
    [] fn = "sendSortedObjects" -> sendSortedObjects(st, arg)
    [] fn = "sendUnsortedObjects" -> sendUnsortedObjects(st, arg)
    [] fn = "sendErrors" -> sendErrors(st, arg)
    [] fn = "sendPickUpFromZone" ->
         IF r = R1 THEN sendPickUpFromZone_R1(st, arg)
         ELSE sendPickUpFromZone(st, arg)

ApiFunctions(r) ==
  CASE r = R1 -> {"sendTable", "sendSpeed", "sendGameStart", "sendProducts",
                  "sendSortedObjects", "sendUnsortedObjects", "sendErrors",
                  "sendPickUpFromZone"}
    [] r = R2 -> {"sendTable", "sendSpeed", "sendGameStart", "sendGameEnd",
                  "sendProducts", "sendSortedObjects", "sendUnsortedObjects",
                  "sendErrors", "sendPickUpFromZone"}
    [] r = R3 -> {}

---------------------------------------------------------------------------
\* Inputs

NotJson == [json |-> FALSE, isNull |-> FALSE, obj |-> {}]
JsonNull == [json |-> TRUE, isNull |-> TRUE, obj |-> {}]
Json(obj) == [json |-> TRUE, isNull |-> FALSE, obj |-> obj]

\* a property, absent when the value is undefined
Prop(name, v) == IF v = Undefined THEN {} ELSE {<<name, v>>}

Msg(type, fields) == Json({<<"type", Str(type)>>} \cup fields)

SpeedValues ==
  {Undefined, Str("fast"), Num(1), Num(2), Num(5), Num(10), Num(15)}
CountValues == {Str("2"), Num(-10), Num(0), Num(30)}
ZoneValues == {Undefined, Str("RED"), Str("green"), Str("blue")}
FlagValues == {Undefined, Bool(TRUE), Str("yes")}
CounterValues == {Undefined, Num(0), Num(10)}
ZoneCountValues == {Undefined, Num(10)}
HandValues == {Str("left"), Str("right"), Str("up")}
AnyValues == {Undefined, Num(30)}
OneValue == {Bool(TRUE)}

\* R1 subscribes to the two topics its handlers broadcast to; R2, where no
\* handler broadcasts to a topic, subscribes to one.
TopicData_R1 ==
  {Str("sorted_objects_update"), Str("unsorted_objects_update"),
   Arr(<<Str("sorted_objects_update"), Str("unsorted_objects_update")>>)}
TopicData_R2 == {Str("a"), Arr(<<Str("a")>>)}

SubscriptionFrames(topicData) ==
  {Msg(t, Prop("data", d)) : t \in {"subscribe", "unsubscribe"},
                             d \in topicData}

CommonFrames ==
  {NotJson, JsonNull, Json({}), Msg("bogus", {}), Msg("ping", {})}
    \cup {Msg("speed_update", Prop("speed", v)) : v \in SpeedValues}
    \cup {Msg("zones_toggle_update", Prop("isZoneOn", v)) : v \in OneValue}

Frames_R1 ==
  CommonFrames
    \cup SubscriptionFrames(TopicData_R1)
    \cup {Msg("debit_update", Prop("debit", v)) : v \in AnyValues}
    \cup {Msg("game_start_update", Prop("isGameStarted", v)) :
            v \in OneValue}
    \cup {Msg("products_update", Prop("generatedProductType", v)) :
            v \in OneValue}
    \cup {Msg("sorted_objects_update", Prop("sortedObjectType", v)) :
            v \in OneValue}
    \cup {Msg("unsorted_objects_update", Prop("unsortedObjectType", v)) :
            v \in OneValue}
    \cup {Msg("errors_update", Prop("count", v)) : v \in CountValues}
    \cup {Msg("pickup_zone_update", Prop("zone", v)) : v \in ZoneValues}

Frames_R2 ==
  CommonFrames
    \cup SubscriptionFrames(TopicData_R2)
    \cup {Msg("debit_update", Prop("debit", v)) : v \in AnyValues}
    \cup {Msg("game_start_update", Prop("isGameStarted", v)) :
            v \in OneValue}
    \cup {Msg("game_end_update", Prop("isGameOver", v)) : v \in OneValue}
    \cup {Msg("DestroyedTrash", Prop("object_name", v)) : v \in AnyValues}
    \cup {Msg("counter", Prop("TotalEchec", x) \cup Prop("TotalReussite", y)
                           \cup Prop("TotalOublie", z)) :
            x \in CounterValues, y \in CounterValues, z \in CounterValues}
    \cup {Msg("zone_entered", Prop("green", x) \cup Prop("red", y)
                                \cup Prop("yellow", z)) :
            x \in ZoneCountValues, y \in ZoneCountValues,
            z \in ZoneCountValues}

Frames_R3 ==
  CommonFrames
    \cup {Msg("debit_update", Prop("table", v)) : v \in AnyValues}
    \cup {Msg("game_start_update", Prop("gameStart", v)) : v \in FlagValues}
    \cup {Msg("game_start_confirmation", Prop("gameStart", v)) :
            v \in FlagValues}
    \cup {Msg("game_end_update", Prop("isGameOver", v)) : v \in OneValue}
    \cup {Msg("DestroyedTrash", Prop("object_name", v)) : v \in AnyValues}
    \cup {Msg("counter", Prop("TotalEchec", x) \cup Prop("TotalReussite", y)
                           \cup Prop("TotalOublie", z)) :
            x \in CounterValues, y \in CounterValues, z \in CounterValues}
    \cup {Msg("zone_entered", Prop("green", x) \cup Prop("red", y)
                                \cup Prop("orange", z)) :
            x \in ZoneCountValues, y \in ZoneCountValues,
            z \in ZoneCountValues}
    \cup {Msg("hand_pickup_object", Prop("hand", h) \cup Prop("handCount", c)) :
            h \in HandValues, c \in CountValues}
    \cup {Msg("emergency_stop", Prop("isEmergencyStop", v)) : v \in AnyValues}
    \cup {Msg("subscribe", Prop("data", Str("a")))}

Frames(r) ==
  CASE r = R1 -> Frames_R1
    [] r = R2 -> Frames_R2
    [] r = R3 -> Frames_R3

ApiArgs(fn) ==
  CASE fn = "sendSpeed" -> SpeedValues
    [] fn = "sendErrors" -> CountValues
    [] fn = "sendPickUpFromZone" -> ZoneValues
    [] fn = "sendTable" -> AnyValues
    [] OTHER -> OneValue

---------------------------------------------------------------------------
\* The state machine.  lastOp, sent and pre describe the callback of the
\* current turn of the event loop: what ran and the broadcast primitives it
\* called, the frames it handed to ws.send in order, and the registry and
\* sockets as it found them.  They are cleared when the turn ends.

NoOp ==
  [op |-> "none", fn |-> "", client |-> 0, ws |-> 0, frame |-> NotJson,
   arg |-> Undefined, caught |-> 0, threw |-> FALSE, calls |-> <<>>,
   deleted |-> <<>>]

NoPre == [clients |-> <<>>, readyState |-> [i \in Ids |-> "NONE"]]

Idle == lastOp.op = "none"

\* client is the clientId the callback closed over, ws its socket
Ran(op, fn, client, ws, frame, arg, st) ==
  /\ clients' = st.clients
  /\ sent' = st.out
  /\ lastOp' = [op |-> op, fn |-> fn, client |-> client, ws |-> ws,
                frame |-> frame, arg |-> arg, caught |-> st.caught,
                threw |-> st.threw, calls |-> st.calls,
                deleted |-> st.deleted]
  /\ pre' = [clients |-> clients, readyState |-> readyState]

Init ==
  /\ rev \in Revisions
  /\ clients = <<>>
  /\ readyState = [i \in Ids |-> "NONE"]
  /\ clientIdOf = [i \in Ids |-> NotAClient]
  /\ nextId = 1
  /\ lastOp = NoOp
  /\ sent = <<>>
  /\ pre = NoPre

\* wss.on('connection') when generateClientId() returns clientId: the
\* socket, the next to be accepted, is OPEN
Accept(clientId) ==
  /\ Idle
  /\ nextId \in Ids
  /\ readyState' = [readyState EXCEPT ![nextId] = "OPEN"]
  /\ clientIdOf' = [clientIdOf EXCEPT ![nextId] = clientId]
  /\ nextId' = nextId + 1
  /\ Ran("connection", "", clientId, nextId, NotJson, Undefined,
         onConnection(Service(clients, readyState'), clientId, nextId))
  /\ UNCHANGED rev

\* an accept whose id was not drawn before
Connection == Accept(nextId)

\* an accept whose id is whatever Date.now() and Math.random() make it
ConnectionAnyId == \E clientId \in Ids : Accept(clientId)

\* ws.on('message'); frames still arrive while the socket is CLOSING
Message(c, frame) ==
  /\ Idle
  /\ readyState[c] \in {"OPEN", "CLOSING"}
  /\ Ran("message", "", clientIdOf[c], c, frame, Undefined,
         onMessage(Service(clients, readyState), clientIdOf[c], frame))
  /\ UNCHANGED <<rev, readyState, clientIdOf, nextId>>

\* the closing handshake starts, or the peer goes away
Closing(c) ==
  /\ Idle
  /\ readyState[c] = "OPEN"
  /\ readyState' = [readyState EXCEPT ![c] = "CLOSING"]
  /\ Ran("closing", "", clientIdOf[c], c, NotJson, Undefined,
         Service(clients, readyState'))
  /\ UNCHANGED <<rev, clientIdOf, nextId>>

\* ws.on('close'): emitted once, when the socket becomes CLOSED
Close(c) ==
  /\ Idle
  /\ readyState[c] \in {"OPEN", "CLOSING"}
  /\ readyState' = [readyState EXCEPT ![c] = "CLOSED"]
  /\ Ran("close", "", clientIdOf[c], c, NotJson, Undefined,
         onClose(Service(clients, readyState'), clientIdOf[c]))
  /\ UNCHANGED <<rev, clientIdOf, nextId>>

\* a call of the outbound API
Call(fn, arg) ==
  /\ Idle
  /\ fn \in ApiFunctions(rev)
  /\ Ran("api", fn, NotAClient, 0, NotJson, arg,
         Api(rev, fn, Service(clients, readyState), arg))
  /\ UNCHANGED <<rev, readyState, clientIdOf, nextId>>

\* the turn of the event loop ends
EndOfTurn ==
  /\ ~Idle
  /\ lastOp' = NoOp
  /\ sent' = <<>>
  /\ pre' = NoPre
  /\ UNCHANGED <<rev, clients, readyState, clientIdOf, nextId>>

AllApiFunctions == ApiFunctions(R1) \cup ApiFunctions(R2)

Next ==
  \/ Connection
  \/ \E c \in Ids : \E frame \in Frames(rev) : Message(c, frame)
  \/ \E c \in Ids : Closing(c)
  \/ \E c \in Ids : Close(c)
  \/ \E fn \in AllApiFunctions : \E arg \in ApiArgs(fn) : Call(fn, arg)
  \/ EndOfTurn

Spec == Init /\ [][Next]_vars

NextAnyId ==
  \/ ConnectionAnyId
  \/ \E c \in Ids : \E frame \in Frames(rev) : Message(c, frame)
  \/ \E c \in Ids : Closing(c)
  \/ \E c \in Ids : Close(c)
  \/ \E fn \in AllApiFunctions : \E arg \in ApiArgs(fn) : Call(fn, arg)
  \/ EndOfTurn

\* the service when nothing keeps two accepts from drawing the same id
SpecAnyId == Init /\ [][NextAnyId]_vars

---------------------------------------------------------------------------
\* The service with the close events delivered.  ws emits 'close' for every
\* socket whose closing handshake has started (it destroys the socket when
\* the handshake times out), and the event loop ends every turn.  The
\* frames are a ping, a valid speed_update and text that is not JSON.

LiveFrames ==
  {NotJson, Msg("ping", {}), Msg("speed_update", Prop("speed", Num(5)))}

\* the 'close' event of a socket that is closing
CloseEvent(c) == readyState[c] = "CLOSING" /\ Close(c)

NextLive ==
  \/ Connection
  \/ \E c \in Ids : \E frame \in LiveFrames : Message(c, frame)
  \/ \E c \in Ids : Closing(c)
  \/ \E c \in Ids : Close(c)
  \/ \E fn \in AllApiFunctions : \E arg \in ApiArgs(fn) : Call(fn, arg)
  \/ EndOfTurn

SpecLive ==
  /\ Init
  /\ [][NextLive]_vars
  /\ WF_vars(EndOfTurn)
  /\ \A c \in Ids : SF_vars(CloseEvent(c))

---------------------------------------------------------------------------
\* What a callback found and what it did

\* id was in the registry with an OPEN socket when the callback started
WasOpen(id) ==
  /\ MapHas(pre.clients, id)
  /\ pre.readyState[MapGet(pre.clients, id).ws] = "OPEN"

WasRegistered(id) == MapHas(pre.clients, id)

SubscriptionsBefore(id) == MapGet(pre.clients, id).subscriptions

SubscriptionsAfter(id) == MapGet(clients, id).subscriptions

\* the positions in sent of the frames written to id
WritesTo(id) == {j \in 1..Len(sent) : sent[j].to = id}

\* the positions in sent of the frames a broadcast primitive wrote to id
WritesBy(fn, id) == {j \in WritesTo(id) : sent[j].via = fn}

Field(j, name) == Get(sent[j].message.obj, name)

IsError(j) == Field(j, "type") = Str("error")

Calls(fn) == {call \in Range(lastOp.calls) : call.fn = fn}

IsMessage(c) == lastOp.op = "message" /\ lastOp.client = c

\* the type tag and a property of the inbound message
Tag == Get(lastOp.frame.obj, "type")

In(name) == Get(lastOp.frame.obj, name)

IsTagged(c, type) ==
  IsMessage(c) /\ lastOp.frame.json /\ ~lastOp.frame.isNull /\ Tag = Str(type)

\* the connection whose message the callback handled
Sender == lastOp.client

\* the callback handled a message that parsed to an object
Parsed ==
  lastOp.op = "message" /\ lastOp.frame.json /\ ~lastOp.frame.isNull

Received(type) == Parsed /\ Tag = Str(type)

\* the only frame written is an error reply to c with this text
OnlyErrorReply(c, text) ==
  /\ Len(sent) = 1
  /\ sent[1].to = c
  /\ sent[1].via = "sendToClient"
  /\ sent[1].message = [defined |-> TRUE,
                        obj |-> {<<"type", Str("error")>>,
                                 <<"message", text>>}]

\* every connection other than c that was open is written exactly one
\* frame, by broadcastExcluding, and it is {type, fields, timestamp,
\* source: c}; no connection that was not open is written anything
RelayedToOthers(c, type, fields) ==
  \A b \in Ids \ {c} :
    IF WasOpen(b)
    THEN /\ Cardinality(WritesTo(b)) = 1
         /\ \A j \in WritesTo(b) :
              /\ sent[j].via = "broadcastExcluding"
              /\ sent[j].message =
                   [defined |-> TRUE,
                    obj |-> {<<"type", Str(type)>>, <<"timestamp", Timestamp>>,
                             <<"source", IdStr(c)>>} \cup fields]
    ELSE WritesTo(b) = {}

\* c is written exactly one frame, after every other frame, by
\* sendToClient, and it is {type, fields, timestamp}
ConfirmedLast(c, type, fields) ==
  /\ WritesTo(c) = {Len(sent)}
  /\ Len(sent) >= 1
  /\ sent[Len(sent)].via = "sendToClient"
  /\ sent[Len(sent)].message =
       [defined |-> TRUE,
        obj |-> {<<"type", Str(type)>>, <<"timestamp", Timestamp>>}
                  \cup fields]

---------------------------------------------------------------------------
\* C1: when broadcastExcluding(A, m) is called with A and B distinct, both
\* in the registry and open, the call writes m to B exactly once and writes
\* nothing to A.
C1_ExcludingReachesOthersOnly ==
  \A call \in Calls("broadcastExcluding") : \A A \in Ids, B \in Ids :
    (call.exclude = A /\ A # B /\ WasOpen(A) /\ WasOpen(B)) =>
      /\ Cardinality(WritesBy("broadcastExcluding", B)) = 1
      /\ \A j \in WritesBy("broadcastExcluding", B) :
           sent[j].message = call.message
      /\ WritesBy("broadcastExcluding", A) = {}

\* a sender and two other connections, all open, and the call made
C1_Witness ==
  \E call \in Calls("broadcastExcluding") :
    /\ call.exclude \in Ids
    /\ \A c \in Ids : WasOpen(c)
    /\ \A c \in Ids \ {call.exclude} :
         Cardinality(WritesBy("broadcastExcluding", c)) = 1
    /\ call.ret = MaxClients - 1

\* C2: broadcastToSubscription(T, m) writes m, once, to the connections
\* that are in the registry, open and subscribed to T when it is called,
\* and writes nothing to any other connection.
C2_SubscribersOnly ==
  \A call \in Calls("broadcastToSubscription") : \A c \in Ids :
    IF WasOpen(c) /\ Str(call.topic) \in SubscriptionsBefore(c)
    THEN /\ Cardinality(WritesBy("broadcastToSubscription", c)) = 1
         /\ \A j \in WritesBy("broadcastToSubscription", c) :
              sent[j].message = call.message
    ELSE WritesBy("broadcastToSubscription", c) = {}

\* an open subscriber, an open connection subscribed to the other topic
\* only, and a subscriber that is no longer open
C2_Witness ==
  \E call \in Calls("broadcastToSubscription") :
    \E a \in Ids, b \in Ids, c \in Ids :
      /\ WasOpen(a) /\ Str(call.topic) \in SubscriptionsBefore(a)
      /\ WasOpen(b) /\ SubscriptionsBefore(b) # {}
      /\ Str(call.topic) \notin SubscriptionsBefore(b)
      /\ WasRegistered(c) /\ ~WasOpen(c)
      /\ Str(call.topic) \in SubscriptionsBefore(c)
      /\ Len(sent) = 1 /\ sent[1].to = a

\* the frame type each function of the outbound API sends
ApiFrameType(r, fn) ==
  CASE fn = "sendTable" -> "table_update"
    [] fn = "sendSpeed" -> "speed_update"
    [] fn = "sendGameStart" -> "game_start_update"
    [] fn = "sendGameEnd" -> "game_end_update"
    [] fn = "sendProducts" ->
         IF r = R1 THEN "products_update" ELSE "DestroyedTrash"
    [] fn = "sendSortedObjects" -> "sorted_objects_update"
    [] fn = "sendUnsortedObjects" -> "unsorted_objects_update"
    [] fn = "sendErrors" -> "errors_update"
    [] fn = "sendPickUpFromZone" -> "pickup_zone_update"

\* C3: a call of the outbound API that does not throw writes its frame
\* exactly once to every open connection of the registry, whatever the
\* connection subscribed to, and to no other connection.
C3_ApiReachesEveryOpen ==
  (lastOp.op = "api" /\ ~lastOp.threw) =>
    \A c \in Ids :
      IF WasOpen(c)
      THEN /\ Cardinality(WritesTo(c)) = 1
           /\ \A j \in WritesTo(c) :
                /\ sent[j].via = "broadcast"
                /\ Field(j, "type") = Str(ApiFrameType(rev, lastOp.fn))
                /\ \A call \in Calls("broadcast") :
                     sent[j].message = call.message
      ELSE WritesTo(c) = {}

\* sendSpeed(0.5) with a subscribed and an unsubscribed open connection and
\* one that is closing
C3_Witness ==
  /\ lastOp.op = "api" /\ lastOp.fn = "sendSpeed" /\ lastOp.arg = Num(5)
  /\ \E a \in Ids, b \in Ids, c \in Ids :
       /\ WasOpen(a) /\ SubscriptionsBefore(a) # {}
       /\ WasOpen(b) /\ SubscriptionsBefore(b) = {}
       /\ WasRegistered(c) /\ ~WasOpen(c)
       /\ Len(sent) = 2
       /\ WritesTo(a) # {} /\ WritesTo(b) # {}

\* C4: when A sends speed_update with speed 0.5 and A and B are open
\* connections of the registry, B is written exactly one frame,
\* {type: speed_update, speed: 0.5, source: A, timestamp}, A is written
\* exactly one frame, {type: speed_update_confirmed, speed: 0.5, timestamp},
\* and neither is written anything else.  (B need not be unsubscribed.)
C4_SpeedEndToEnd ==
  (Received("speed_update") /\ In("speed") = Num(5) /\ WasOpen(Sender)) =>
    /\ RelayedToOthers(Sender, "speed_update", {<<"speed", Num(5)>>})
    /\ ConfirmedLast(Sender, "speed_update_confirmed", {<<"speed", Num(5)>>})

\* A and B open, B subscribed to nothing, the two frames written
C4_Witness ==
  \E A \in Ids, B \in Ids :
    /\ A # B
    /\ IsTagged(A, "speed_update") /\ In("speed") = Num(5)
    /\ WasOpen(A) /\ WasOpen(B)
    /\ SubscriptionsBefore(B) = {}
    /\ WritesTo(B) # {} /\ WritesTo(A) # {}

\* the state-update types that end with a confirmation: the inbound tag,
\* the type of the relayed frame and the payload fields of each revision
UpdateShapes(r) ==
  {[tag |-> "speed_update", type |-> "speed_update", names |-> {"speed"}],
   [tag |-> "debit_update",
    type |-> IF r = R3 THEN "table_update" ELSE "debit_update",
    names |-> IF r = R3 THEN {"table"} ELSE {"debit"}],
   [tag |-> "game_start_update", type |-> "game_start_update",
    names |-> IF r = R3 THEN {"gameStart"} ELSE {"isGameStarted"}],
   [tag |-> "game_end_update", type |-> "game_end_update",
    names |-> {"isGameOver"}],
   [tag |-> "zones_toggle_update", type |-> "zones_toggle_update",
    names |-> {"isZoneOn"}],
   [tag |-> "DestroyedTrash", type |-> "DestroyedTrash",
    names |-> {"object_name"}],
   [tag |-> "hand_pickup_object", type |-> "hand_pickup_object",
    names |-> {"hand", "handCount"}],
   [tag |-> "emergency_stop", type |-> "emergency_stop",
    names |-> {"isEmergencyStop"}]}

\* counter and zone-entered
EventShapes ==
  {[tag |-> "counter", type |-> "counter",
    names |-> {"TotalEchec", "TotalReussite", "TotalOublie"}],
   [tag |-> "zone_entered", type |-> "zone_entered",
    names |-> {"green", "red", "yellow", "orange"}]}

\* the payload fields the inbound message carries
Payload(names) == {<<n, In(n)>> : n \in {m \in names : In(m) # Undefined}}

\* no error reply was written: the message passed validation (the sender
\* being open, a rejection would have been written)
Accepted == \A j \in 1..Len(sent) : ~IsError(j)

\* the protocol, by frame types: every other open connection is written one
\* frame of the relayed type, then the sender is written one frame of that
\* type suffixed _confirmed, and nobody else is
FollowsProtocol(c, u) ==
  (Received(u.tag) /\ WasOpen(c) /\ Accepted) =>
    /\ \A b \in Ids \ {c} :
         WasOpen(b) =>
           /\ Cardinality(WritesTo(b)) = 1
           /\ \A j \in WritesTo(b) : Field(j, "type") = Str(u.type)
    /\ WritesTo(c) = {Len(sent)}
    /\ Len(sent) >= 1
    /\ Field(Len(sent), "type") = Str(u.type \o "_confirmed")

\* the protocol, frame by frame
FollowsProtocolExactly(c, u) ==
  (Received(u.tag) /\ WasOpen(c) /\ Accepted) =>
    /\ RelayedToOthers(c, u.type, Payload(u.names))
    /\ ConfirmedLast(c, u.type \o "_confirmed", Payload(u.names))

\* C5 as stated: each of the ten state-update types, sent by an open
\* connection and passing validation, is relayed to every other open
\* connection and then confirmed once, to the sender only, with a frame of
\* type <type>_confirmed.  (Violated: counter and zone_entered are relayed
\* and never confirmed.)
C5_AllTenConfirmed ==
  Parsed =>
    \A u \in UpdateShapes(rev) \cup EventShapes : FollowsProtocol(Sender, u)

\* C5, amended: the eight types speed, table/debit, game-start, game-end,
\* zone-toggle, product-destroyed, hand-pickup and emergency-stop, sent by an
\* open connection and passing validation, are relayed to every other open
\* connection and then confirmed exactly once, to the sender only, with the
\* relayed type suffixed _confirmed; a counter or zone-entered message is
\* only relayed: no frame is written by sendToClient and none is a
\* confirmation.
C5_EightConfirmed ==
  Parsed =>
    /\ \A u \in UpdateShapes(rev) : FollowsProtocolExactly(Sender, u)
    /\ \A u \in EventShapes :
         Received(u.tag) =>
           \A j \in 1..Len(sent) :
             /\ sent[j].via = "broadcastExcluding"
             /\ Field(j, "type") # Str(u.type \o "_confirmed")

\* an emergency_stop relayed to every other connection, all of them open,
\* and confirmed to its sender
C5_Witness ==
  \E c \in Ids :
    /\ IsTagged(c, "emergency_stop")
    /\ \A b \in Ids : WasOpen(b)
    /\ Len(sent) = MaxClients
    /\ sent[Len(sent)].to = c
    /\ Field(Len(sent), "type") = Str("emergency_stop_confirmed")

\* the only frame written is an error reply to c
ErrorReplyOnly(c) ==
  /\ Len(sent) = 1
  /\ sent[1].to = c
  /\ sent[1].via = "sendToClient"
  /\ IsError(1)

\* a rejection: nothing is broadcast, and the sender, when its socket is
\* open, is written one error reply (a socket that is not open cannot be
\* written to)
Rejected(c) ==
  /\ lastOp.calls = <<>>
  /\ IF WasOpen(c) THEN ErrorReplyOnly(c) ELSE sent = <<>>

\* C6: a speed_update whose speed is not a number or lies outside
\* [0.2, 1.0] is answered with exactly one error reply to the sender and
\* nothing is written to anyone else; one whose speed lies in [0.2, 1.0],
\* 0.2 and 1.0 included, is relayed to every other open connection.
C6_SpeedValidation ==
  (Received("speed_update") /\ WasRegistered(Sender)) =>
    IF typeof(In("speed")) = "number"
       /\ In("speed").n >= 2 /\ In("speed").n <= 10
    THEN /\ Calls("broadcastExcluding") # {}
         /\ RelayedToOthers(Sender, "speed_update",
                            {<<"speed", In("speed")>>})
    ELSE Rejected(Sender)

\* the bound 0.2 accepted and relayed to another open connection
C6_Witness ==
  \E c \in Ids, b \in Ids :
    /\ b # c
    /\ IsTagged(c, "speed_update") /\ In("speed") = Num(2)
    /\ WasOpen(c) /\ WasOpen(b)
    /\ WritesTo(b) # {}

\* C7 (the revision that handles hand_pickup_object): the message is relayed
\* if and only if hand is 'left' or 'right' and handCount is a number >= 0;
\* otherwise the sender is written exactly one error reply and nobody else
\* is written anything.
C7_HandPickupValidation ==
  (rev = R3 /\ Received("hand_pickup_object") /\ WasRegistered(Sender)) =>
    IF In("hand") \in {Str("left"), Str("right")}
       /\ typeof(In("handCount")) = "number" /\ In("handCount").n >= 0
    THEN /\ Calls("broadcastExcluding") # {}
         /\ RelayedToOthers(Sender, "hand_pickup_object",
                            {<<"hand", In("hand")>>,
                             <<"handCount", In("handCount")>>})
    ELSE Rejected(Sender)

\* hand 'right' with handCount 0 accepted and relayed to another open
\* connection
C7_Witness ==
  \E c \in Ids, b \in Ids :
    /\ b # c
    /\ IsTagged(c, "hand_pickup_object")
    /\ In("hand") = Str("right") /\ In("handCount") = Num(0)
    /\ WasOpen(c) /\ WasOpen(b)
    /\ WritesTo(b) # {}

\* the topics a subscribe or unsubscribe message names: a string, or the
\* elements of an array
Topics(data) == IF data.k = "array" THEN Range(data.a) ELSE {data}

HasSubscriptions == rev \in {R1, R2}

\* C8 (the revisions with subscriptions): a subscribe message leaves the
\* connection's set as the union of what it was and the topics named, an
\* unsubscribe leaves what it was without the topics named; so subscribing
\* to topics all in the set, or unsubscribing topics none of which is in it,
\* leaves the set as it was.
C8_SetSemantics ==
  (HasSubscriptions /\ Parsed /\ WasRegistered(Sender)) =>
    /\ Received("subscribe") =>
         /\ MapHas(clients, Sender)
         /\ SubscriptionsAfter(Sender) =
              SubscriptionsBefore(Sender) \cup Topics(In("data"))
         /\ Topics(In("data")) \subseteq SubscriptionsBefore(Sender) =>
              SubscriptionsAfter(Sender) = SubscriptionsBefore(Sender)
    /\ Received("unsubscribe") =>
         /\ MapHas(clients, Sender)
         /\ SubscriptionsAfter(Sender) =
              SubscriptionsBefore(Sender) \ Topics(In("data"))
         /\ Topics(In("data")) \cap SubscriptionsBefore(Sender) = {} =>
              SubscriptionsAfter(Sender) = SubscriptionsBefore(Sender)

\* subscribed to two topics, unsubscribing from one leaves exactly the other
C8_Witness ==
  \E c \in Ids :
    /\ IsTagged(c, "unsubscribe")
    /\ In("data") = Str("sorted_objects_update")
    /\ WasRegistered(c)
    /\ SubscriptionsBefore(c) = {Str("sorted_objects_update"),
                                 Str("unsorted_objects_update")}
    /\ SubscriptionsAfter(c) = {Str("unsorted_objects_update")}

\* the registry, and with it every subscription set, is as the callback
\* found it
NothingChanged == clients = pre.clients

\* C9: a frame that is not JSON is answered with exactly one error frame,
\* 'Invalid JSON format', written to the sender (when its socket is open: a
\* socket that is not open cannot be written to); nothing is written to any
\* other connection, and the registry and every subscription set stay as
\* they were.
C9_InvalidJson ==
  (lastOp.op = "message" /\ ~lastOp.frame.json) =>
    /\ IF WasOpen(Sender)
       THEN OnlyErrorReply(Sender, Str("Invalid JSON format"))
       ELSE sent = <<>>
    /\ lastOp.calls = <<>>
    /\ NothingChanged

\* an open subscriber sends text that is not JSON while another connection
\* is open and a third is closing
C9_Witness ==
  \E c \in Ids, b \in Ids, d \in Ids :
    /\ b # c
    /\ IsMessage(c) /\ ~lastOp.frame.json
    /\ WasOpen(c) /\ WasOpen(b)
    /\ WasRegistered(d) /\ ~WasOpen(d)
    /\ SubscriptionsBefore(c) # {}
    /\ Len(sent) = 1

\* the tags each revision dispatches on
KnownTags(r) ==
  CASE r = R1 -> {"subscribe", "unsubscribe", "ping", "speed_update",
                  "debit_update", "game_start_update", "zones_toggle_update",
                  "products_update", "sorted_objects_update",
                  "unsorted_objects_update", "errors_update",
                  "pickup_zone_update"}
    [] r = R2 -> {"subscribe", "unsubscribe", "ping", "speed_update",
                  "debit_update", "game_start_update", "game_end_update",
                  "zones_toggle_update", "DestroyedTrash", "counter",
                  "zone_entered"}
    [] r = R3 -> {"ping", "speed_update", "debit_update",
                  "game_start_update", "game_end_update",
                  "zones_toggle_update", "DestroyedTrash", "counter",
                  "zone_entered", "game_start_confirmation",
                  "hand_pickup_object", "emergency_stop"}

\* C10: a message whose type tag is none of the known tags (or is missing)
\* is answered with exactly one error frame, 'Unknown message type: <tag>',
\* written to the sender (when its socket is open); nothing is written to
\* any other connection, and the registry and every subscription set stay
\* as they were.
C10_UnknownType ==
  (/\ Parsed
   /\ WasRegistered(Sender)
   /\ Tag \notin {Str(t) : t \in KnownTags(rev)}) =>
    /\ IF WasOpen(Sender)
       THEN OnlyErrorReply(Sender, Template("Unknown message type: ", Tag))
       ELSE sent = <<>>
    /\ lastOp.calls = <<>>
    /\ NothingChanged

\* an open connection sends the tag 'bogus' while another connection is
\* open and a third is closing
C10_Witness ==
  \E c \in Ids, b \in Ids, d \in Ids :
    /\ b # c
    /\ IsMessage(c) /\ Tag = Str("bogus")
    /\ WasOpen(c) /\ WasOpen(b)
    /\ WasRegistered(d) /\ ~WasOpen(d)
    /\ Len(sent) = 1
    /\ Field(1, "message") = Template("Unknown message type: ", Str("bogus"))

\* the connections a callback found open
OpenBefore == {c \in Ids : WasOpen(c)}

\* C11: once a broadcast primitive has returned, no connection that was
\* not open when the primitive visited it is in the registry, the excluded
\* sender and the connections not subscribed to the topic included, and
\* getConnectedClientsCount() counts the connections that were open.
C11_NonOpenEvicted ==
  lastOp.calls # <<>> =>
    /\ \A c \in Ids : (WasRegistered(c) /\ ~WasOpen(c)) => ~MapHas(clients, c)
    /\ MapKeys(clients) = OpenBefore
    /\ getConnectedClientsCount(Service(clients, readyState)) =
         Cardinality(OpenBefore)

\* broadcastExcluding called for a sender that is closing: the sender is
\* evicted with another closing connection, an open one stays
C11_Witness ==
  \E call \in Calls("broadcastExcluding") : \E b \in Ids, d \in Ids :
    /\ call.exclude = Sender /\ b # Sender /\ d # Sender
    /\ WasRegistered(Sender) /\ ~WasOpen(Sender)
    /\ WasRegistered(b) /\ ~WasOpen(b)
    /\ WasOpen(d)
    /\ MapKeys(clients) = {d}

\* C12: a ping causes exactly one frame, {type: pong, timestamp}, written
\* to the sender (when its socket is open), no call of a broadcast
\* primitive and no frame to any other connection.
C12_PingPong ==
  (Received("ping") /\ WasRegistered(Sender)) =>
    /\ lastOp.calls = <<>>
    /\ IF WasOpen(Sender)
       THEN sent = <<Write(Sender, "sendToClient",
                           [defined |-> TRUE,
                            obj |-> {<<"type", Str("pong")>>,
                                     <<"timestamp", Timestamp>>}])>>
       ELSE sent = <<>>
    /\ NothingChanged

\* a ping from an open connection while another is open and a third is
\* closing
C12_Witness ==
  \E b \in Ids, d \in Ids :
    /\ Received("ping") /\ WasOpen(Sender)
    /\ b # Sender /\ WasOpen(b)
    /\ WasRegistered(d) /\ ~WasOpen(d)
    /\ Len(sent) = 1 /\ sent[1].to = Sender

\* the payload of the inbound message: its properties other than type
InboundPayload == {p \in lastOp.frame.obj : p[1] # "type"}

\* the payload of a frame: its properties other than type and timestamp
FramePayload(j) ==
  {p \in sent[j].message.obj : p[1] \notin {"type", "timestamp"}}

StateUpdateTags == {Str(u.tag) : u \in UpdateShapes(rev) \cup EventShapes}

\* C13: when a state-update message from an open connection is accepted,
\* the confirmation (the frame the handler writes with sendToClient) is
\* written to the sender, its type is the tag of the inbound message
\* followed by _confirmed, and its payload is the payload of the inbound
\* message.  (Violated: the second revision of vr.js confirms debit_update
\* as table_update_confirmed.)
C13_ConfirmationNamesInboundTag ==
  (Parsed /\ Tag \in StateUpdateTags /\ WasOpen(Sender) /\ Accepted) =>
    \A j \in 1..Len(sent) :
      sent[j].via = "sendToClient" =>
        /\ sent[j].to = Sender
        /\ Field(j, "type") = Str(Tag.s \o "_confirmed")
        /\ FramePayload(j) = InboundPayload

\* C15: every frame written to a connection, whatever callback wrote it,
\* is an object that carries a type and a timestamp.  (Violated: a counter
\* message without any of its fields is relayed as {}; error replies and
\* subscription confirmations carry no timestamp.)
C15_TypeAndTimestamp ==
  \A j \in 1..Len(sent) :
    /\ sent[j].message.defined
    /\ Has(sent[j].message.obj, "type")
    /\ Has(sent[j].message.obj, "timestamp")

Broadcasts == {"broadcast", "broadcastExcluding", "broadcastToSubscription"}

\* C16: every frame a broadcast primitive writes while a client message is
\* handled carries source, the id of the connection that sent the message,
\* and no frame written by a call of the outbound API carries a source.
\* (Violated: the frame {} relayed for a counter message without fields
\* carries no source.)
C16_SourceIsSender ==
  /\ lastOp.op = "message" =>
       \A j \in 1..Len(sent) :
         sent[j].via \in Broadcasts => Field(j, "source") = IdStr(Sender)
  /\ lastOp.op = "api" =>
       \A j \in 1..Len(sent) : ~Has(sent[j].message.obj, "source")

\* the argument of the API call fails the validation stated for it
FailsStatedValidation ==
  CASE lastOp.fn = "sendSpeed" ->
         typeof(lastOp.arg) # "number"
           \/ lastOp.arg.n < 2 \/ lastOp.arg.n > 10
    [] lastOp.fn = "sendErrors" ->
         typeof(lastOp.arg) # "number" \/ lastOp.arg.n < 0
    [] lastOp.fn = "sendPickUpFromZone" ->
         typeof(lastOp.arg) # "string"
           \/ toLowerCase(lastOp.arg.s) \notin {"red", "green", "yellow"}
    [] OTHER -> FALSE

\* C17: a call of sendSpeed, sendErrors or sendPickUpFromZone whose
\* argument fails its validation throws, calls no broadcast primitive and
\* writes no frame.  (Violated: sendPickUpFromZone of the first revision of
\* vr.js, where the check of the zone is commented out, broadcasts 'blue'.)
C17_ApiValidation ==
  (lastOp.op = "api" /\ FailsStatedValidation) =>
    /\ lastOp.threw
    /\ lastOp.calls = <<>>
    /\ sent = <<>>

Greeting(clientId) ==
  [defined |-> TRUE,
   obj |-> {<<"type", Str("connection")>>,
            <<"message", Str("Connected to VR Game Dashboard")>>,
            <<"clientId", IdStr(clientId)>>,
            <<"timestamp", Timestamp>>}]

\* C14: the callback that accepts a socket writes one frame, the greeting
\* with the clientId the socket is registered under, to that socket, which
\* was not accepted before; no other callback writes a greeting; and no
\* frame is ever written to a socket that has not been accepted.  So the
\* greeting is the first frame a connection is written and the only
\* greeting of its lifetime.
C14_GreetedOnceAndFirst ==
  /\ lastOp.op = "connection" =>
       /\ pre.readyState[lastOp.ws] = "NONE"
       /\ sent = <<Write(lastOp.ws, "sendToClient", Greeting(lastOp.client))>>
       /\ MapHas(clients, lastOp.client)
       /\ MapGet(clients, lastOp.client).ws = lastOp.ws
  /\ lastOp.op # "connection" =>
       \A j \in 1..Len(sent) : Field(j, "type") # Str("connection")
  /\ \A j \in 1..Len(sent) : readyState[sent[j].to] # "NONE"

\* the second accept, while the first connection is open: only the new
\* connection is greeted
C14_Witness ==
  /\ lastOp.op = "connection" /\ lastOp.ws = 2
  /\ WasOpen(1)
  /\ Len(sent) = 1 /\ sent[1].to = 2
  /\ Field(1, "clientId") = IdStr(lastOp.client)

\* C18: an accept registers the socket under an id that no socket accepted
\* earlier was given, so it replaces no entry of the registry.  (Violated
\* in SpecAnyId: generateClientId does not look at the registry.)
C18_FreshId ==
  lastOp.op = "connection" =>
    /\ \A s \in Ids :
         (s # lastOp.ws /\ clientIdOf[s] # NotAClient) =>
           clientIdOf[s] # lastOp.client
    /\ ~MapHas(pre.clients, lastOp.client)


\* ---------------------------------------------------------------------------
\* C19: no inbound frame makes an exception leave the message callback, and
\* every exception raised while the frame is parsed, dispatched or handled is
\* caught once and answered with an error frame to the sender and with nothing
\* else (the answer is not written when the sender's socket is no longer
\* open). Text that is not JSON raises, and so does the JSON text null from
\* a sender the registry still holds.
C19_NothingEscapes ==
  lastOp.op = "message" =>
    /\ ~lastOp.threw
    /\ lastOp.caught <= 1
    /\ ~lastOp.frame.json => lastOp.caught = 1
    /\ (lastOp.frame.json /\ lastOp.frame.isNull /\ WasRegistered(Sender))
         => lastOp.caught = 1
    /\ lastOp.caught = 1 =>
         /\ Rejected(Sender)
         /\ clients = pre.clients

C19_Witness ==
  /\ lastOp.op = "message"
  /\ Parsed
  /\ lastOp.caught = 1
  /\ WasOpen(Sender)
  /\ ErrorReplyOnly(Sender)


\* the connections a call of a broadcast primitive is meant for
IsTarget(call, b) ==
  CASE call.fn = "broadcast" -> TRUE
    [] call.fn = "broadcastExcluding" -> b # call.exclude
    [] call.fn = "broadcastToSubscription" ->
         Str(call.topic) \in SubscriptionsBefore(b)

\* the registered connections whose socket was not open: a frame cannot be
\* written to them
Unwritable == {p \in Ids : WasRegistered(p) /\ ~WasOpen(p)}

\* the position of a connection in the registry before the callback
PositionBefore(c) ==
  CHOOSE i \in 1..Len(pre.clients) : pre.clients[i].clientId = c

\* C20: when a broadcast meets a peer that cannot be written to, that peer
\* is evicted from the registry, every open connection the call is meant for
\* is still written the message, once, by that call, and no error frame is
\* written to the sender or to anyone else.
C20_FailedPeerDoesNotAbort ==
  \A call \in Range(lastOp.calls) :
    Unwritable # {} =>
      /\ \A p \in Unwritable :
           /\ ~MapHas(clients, p)
           /\ WritesTo(MapGet(pre.clients, p).ws) = {}
      /\ \A b \in OpenBefore :
           IsTarget(call, b) =>
             /\ MapHas(clients, b)
             /\ \E j \in WritesBy(call.fn, MapGet(pre.clients, b).ws) :
                  /\ sent[j].message = call.message
                  /\ WritesBy(call.fn, MapGet(pre.clients, b).ws) = {j}
      /\ \A j \in 1..Len(sent) : ~IsError(j)

\* a relayed message meets a closing peer that the registry holds before an
\* open one: the closing peer is evicted, the open one is written the message
\* and the sender its confirmation
C20_Witness ==
  \E call \in Calls("broadcastExcluding") : \E p \in Unwritable :
    \E b \in OpenBefore :
      /\ lastOp.op = "message"
      /\ call.exclude = Sender
      /\ WasOpen(Sender)
      /\ b # Sender
      /\ PositionBefore(p) < PositionBefore(b)
      /\ ~MapHas(clients, p)
      /\ WritesBy("broadcastExcluding", MapGet(pre.clients, b).ws) # {}
      /\ WritesTo(MapGet(pre.clients, Sender).ws) # {}


\* the sockets the registry held when the callback started
SocketsBefore == {pre.clients[i].ws : i \in 1..Len(pre.clients)}

\* the sockets that were accepted, are not closed and have no entry in the
\* registry: only a broadcast primitive that has returned takes the entry of
\* a socket that is not closed
EvictedBefore ==
  {s \in Ids : pre.readyState[s] = "CLOSING" /\ s \notin SocketsBefore}

\* C21: delivery is at most once and nothing is replayed: a call of a
\* broadcast primitive writes its frame to a socket at most once, the frames
\* the primitives write in a callback are those of the calls made in that
\* callback and go to sockets the registry held when the callback started,
\* and the callback that accepts a socket, whatever was broadcast before,
\* calls no primitive and writes the new socket its greeting only.
C21_AtMostOnceNoReplay ==
  /\ \A call \in Range(lastOp.calls) : \A s \in Ids :
       Cardinality(WritesBy(call.fn, s)) <= 1
  /\ \A j \in 1..Len(sent) :
       sent[j].via # "sendToClient" =>
         /\ sent[j].to \in SocketsBefore
         /\ \E call \in Calls(sent[j].via) : call.message = sent[j].message
  /\ lastOp.op = "connection" =>
       /\ lastOp.calls = <<>>
       /\ lastOp.ws \notin SocketsBefore
       /\ \A j \in WritesTo(lastOp.ws) : sent[j].via = "sendToClient"
       /\ Cardinality(WritesTo(lastOp.ws)) = 1

\* a socket accepted after a broadcast has returned (the broadcast evicted a
\* closing connection) while another connection is open: the new socket is
\* written one frame, its greeting
C21_Witness ==
  /\ lastOp.op = "connection"
  /\ EvictedBefore # {}
  /\ OpenBefore # {}
  /\ Len(sent) = 1
  /\ sent[1] = Write(lastOp.ws, "sendToClient", Greeting(lastOp.client))


\* the counter fields of the inbound message that are present
PresentCounters ==
  {n \in {"TotalEchec", "TotalReussite", "TotalOublie"} : In(n) # Undefined}

\* the last of them in the order TotalEchec, TotalReussite, TotalOublie
LastPresentCounter ==
  IF "TotalOublie" \in PresentCounters THEN "TotalOublie"
  ELSE IF "TotalReussite" \in PresentCounters THEN "TotalReussite"
  ELSE "TotalEchec"

\* C22: a counter message causes at most one call of a broadcast primitive,
\* and when a counter field is present the message relayed is {type: counter,
\* <field>, timestamp, source} for the last field present, whatever its
\* value.  (Violated in R2, where a field is taken when it is truthy: a
\* field that is 0 is not relayed.)
C22_LastPresentCounterWins ==
  Received("counter") =>
    /\ Len(lastOp.calls) <= 1
    /\ PresentCounters # {} =>
         \A call \in Range(lastOp.calls) :
           call.message =
             JSONstringify(Relayed("counter",
                                   {<<LastPresentCounter,
                                      In(LastPresentCounter)>>},
                                   Sender))


\* the messages that validation is said to let through
PermissiveTags ==
  {Str("counter"), Str("zone_entered"), Str("debit_update"),
   Str("game_start_update"), Str("game_end_update"),
   Str("zones_toggle_update")}

\* C23: a counter, zone_entered, debit_update (the table message),
\* game_start_update, game_end_update or zones_toggle_update message is
\* never rejected: whatever its fields, no error reply is written and
\* nothing is caught.  (Violated in R3, where handleGameStartUpdate throws
\* when gameStart is not a boolean.)
C23_NeverRejected ==
  (Parsed /\ Tag \in PermissiveTags /\ WasRegistered(Sender)) =>
    /\ lastOp.caught = 0
    /\ \A j \in 1..Len(sent) : ~IsError(j)


\* the only frame written is {type, subscriptions}, written with
\* sendToClient to the sender's socket, and subscriptions lists, each once,
\* the members of the sender's set as it is now
OnlySubscriptionReply(type) ==
  /\ Len(sent) = 1
  /\ sent[1].to = MapGet(pre.clients, Sender).ws
  /\ sent[1].via = "sendToClient"
  /\ {p[1] : p \in sent[1].message.obj} = {"type", "subscriptions"}
  /\ Field(1, "type") = Str(type)
  /\ Field(1, "subscriptions").k = "array"
  /\ Range(Field(1, "subscriptions").a) = SubscriptionsAfter(Sender)
  /\ Len(Field(1, "subscriptions").a) = Cardinality(SubscriptionsAfter(Sender))

\* C24 (the revisions with subscriptions): a subscribe message from a
\* registered open connection is answered with exactly one frame,
\* subscription_confirmed, an unsubscribe message with exactly one frame,
\* unsubscription_confirmed; the frame is written to that connection, nothing
\* is written to any other, no broadcast primitive is called, and the
\* frame's subscriptions list is the connection's set after the mutation.
C24_SubscriptionReply ==
  (HasSubscriptions /\ WasOpen(Sender)) =>
    /\ Received("subscribe") =>
         /\ lastOp.calls = <<>>
         /\ OnlySubscriptionReply("subscription_confirmed")
    /\ Received("unsubscribe") =>
         /\ lastOp.calls = <<>>
         /\ OnlySubscriptionReply("unsubscription_confirmed")

\* a connection subscribed to one topic subscribes to an array of two while
\* another connection is open: the reply lists both topics
C24_Witness ==
  /\ Received("subscribe")
  /\ WasOpen(Sender)
  /\ In("data").k = "array"
  /\ Cardinality(SubscriptionsBefore(Sender)) = 1
  /\ Cardinality(SubscriptionsAfter(Sender)) = 2
  /\ OpenBefore # {Sender}
  /\ OnlySubscriptionReply("subscription_confirmed")


\* C25: a message from a socket whose clientId the registry no longer holds
\* has no effect: the registry and every subscription set stay as they
\* were, no frame is written to anyone, no broadcast primitive is called and
\* nothing leaves the callback; a message that parses raises nothing at all
\* (text that does not parse is caught in the callback, and its error reply
\* is not written).
C25_UnknownIdNoEffect ==
  (lastOp.op = "message" /\ ~WasRegistered(Sender)) =>
    /\ NothingChanged
    /\ sent = <<>>
    /\ lastOp.calls = <<>>
    /\ ~lastOp.threw
    /\ lastOp.frame.json => lastOp.caught = 0

\* a closing connection that a broadcast has evicted sends a valid
\* speed_update while another connection is open: nothing is relayed
C25_Witness ==
  /\ Received("speed_update")
  /\ typeof(In("speed")) = "number"
  /\ ~WasRegistered(Sender)
  /\ pre.readyState[lastOp.ws] = "CLOSING"
  /\ OpenBefore # {}
  /\ sent = <<>>


\* C26: a frame is written to open sockets only, by sendToClient and by the
\* broadcast primitives alike, and a broadcast primitive writes to a
\* connection of the registry exactly when its socket is open and the call
\* is meant for it (it is not the excluded sender, it is subscribed to the
\* topic): every open connection is visible to the primitive, no other is.
C26_OnlyOpenWritten ==
  /\ \A j \in 1..Len(sent) : readyState[sent[j].to] = "OPEN"
  /\ \A call \in Range(lastOp.calls) : \A i \in 1..Len(pre.clients) :
       WritesBy(call.fn, pre.clients[i].ws) # {}
         <=> /\ pre.readyState[pre.clients[i].ws] = "OPEN"
             /\ IsTarget(call, pre.clients[i].clientId)

\* a registered connection that is closing sends a message that is relayed,
\* while one peer is open and another is closing: one frame is written, to
\* the open peer
C26_Witness ==
  \E call \in Calls("broadcastExcluding") : \E b \in OpenBefore :
    /\ lastOp.op = "message"
    /\ call.exclude = Sender
    /\ Sender \in Unwritable
    /\ Cardinality(Unwritable) = 2
    /\ Len(sent) = 1
    /\ sent[1].to = MapGet(pre.clients, b).ws


\* the ids whose entry the callback removed from the registry
Removed == MapKeys(pre.clients) \ MapKeys(clients)

\* the ids the callback called this.clients.delete for
Deleted == {d.clientId : d \in Range(lastOp.deleted)}

\* C27: an entry leaves the registry only through this.clients.delete,
\* called either by the close callback of that connection or by a broadcast
\* primitive, called in this callback, for a connection whose socket was not
\* open; a callback that is not a close and calls no primitive (a ping, a
\* subscribe or unsubscribe, an error reply, a rejection) removes nothing,
\* and an entry whose socket is open is removed by no broadcast.
C27_RemovedByCloseOrBroadcastOnly ==
  /\ Removed \subseteq Deleted
  /\ \A d \in Range(lastOp.deleted) :
       \/ /\ d.by = "close"
          /\ lastOp.op = "close"
          /\ d.clientId = lastOp.client
       \/ /\ d.by \in Broadcasts
          /\ Calls(d.by) # {}
          /\ d.clientId \in Unwritable
  /\ (lastOp.op # "close" /\ lastOp.calls = <<>>) => Removed = {}
  /\ lastOp.op # "close" => OpenBefore \subseteq MapKeys(clients)

\* a registered connection that is closing sends a message that raises: the
\* error reply is attempted with sendToClient, nothing is written, and the
\* entry stays although its socket is not open
C27_Witness ==
  /\ lastOp.op = "message"
  /\ lastOp.caught = 1
  /\ Sender \in Unwritable
  /\ OpenBefore # {}
  /\ sent = <<>>
  /\ MapHas(clients, Sender)


\* a state-update handler that ends with a confirmation has run its
\* broadcast step and its confirmation step for a registered sender whose
\* socket is not open
ConfirmFails ==
  /\ Parsed
  /\ Tag \in {Str(u.tag) : u \in UpdateShapes(rev)}
  /\ Sender \in Unwritable
  /\ \E call \in Calls("broadcastExcluding") : call.exclude = Sender

\* no confirmation is written, nothing is raised and no error is reported
\* to anyone
SilentlyUnconfirmed ==
  /\ WritesTo(lastOp.ws) = {}
  /\ \A j \in 1..Len(sent) : sent[j].via = "broadcastExcluding"
  /\ ~lastOp.threw
  /\ lastOp.caught = 0
  /\ Accepted

Sockets == {clients[i].ws : i \in 1..Len(clients)}

\* the socket was accepted and the registry holds no entry for it
Gone(s) == readyState[s] # "NONE" /\ s \notin Sockets

\* C29: a connection whose socket is closed has no entry in the registry; a
\* connection whose socket has stopped being open eventually has none (its
\* close event is delivered, if no broadcast primitive finds it first); and
\* a connection that has left the registry is never put back.
C29_ClosedEventuallyAbsent ==
  /\ [](\A s \in Ids : readyState[s] = "CLOSED" => s \notin Sockets)
  /\ \A s \in Ids :
       (readyState[s] \in {"CLOSING", "CLOSED"}) ~> (s \notin Sockets)
  /\ [][\A s \in Ids : Gone(s) => Gone(s)']_vars

\* the close event of a closing connection that was still in the registry,
\* while another connection is open: its entry is gone, the other stays
C29_Witness ==
  /\ lastOp.op = "close"
  /\ pre.readyState[lastOp.ws] = "CLOSING"
  /\ lastOp.ws \in SocketsBefore
  /\ readyState[lastOp.ws] = "CLOSED"
  /\ lastOp.ws \notin Sockets
  /\ OpenBefore # {}
  /\ OpenBefore \subseteq MapKeys(clients)


\* the registry the callback found, without the entries of ids
Without(ids) == SelectSeq(pre.clients, LAMBDA e : e.clientId \notin ids)

\* C30: removal is idempotent.  A close callback removes the entry of its
\* connection and nothing else; when a broadcast has evicted the connection
\* before, the registry stays as it was.  A broadcast primitive deletes
\* entries that are in the registry, each once, and leaves the others as
\* they were and in their order: connections that a close or an earlier
\* broadcast removed are not visited.  Neither raises anything or writes a
\* frame because of a removal.
C30_RemovalIdempotent ==
  /\ lastOp.op = "close" =>
       /\ lastOp.deleted = <<[by |-> "close", clientId |-> lastOp.client]>>
       /\ clients = Without({lastOp.client})
       /\ ~WasRegistered(lastOp.client) => clients = pre.clients
       /\ ~lastOp.threw
       /\ sent = <<>>
  /\ lastOp.calls # <<>> =>
       /\ Deleted \subseteq MapKeys(pre.clients)
       /\ Len(lastOp.deleted) = Cardinality(Deleted)
       /\ clients = Without(Deleted)
       /\ ~lastOp.threw
       /\ \A j \in 1..Len(sent) : sent[j].to \in SocketsBefore

\* the close event of a connection that a broadcast has evicted, while two
\* other connections are registered: the registry stays as it was
C30_Witness ==
  /\ lastOp.op = "close"
  /\ ~WasRegistered(lastOp.client)
  /\ pre.readyState[lastOp.ws] = "CLOSING"
  /\ Len(pre.clients) = 2
  /\ clients = pre.clients


\* the entries that were in the registry when the callback started and that
\* a call writes to: their socket is open and the call is meant for them
WrittenEntries(call) ==
  SelectSeq(pre.clients,
            LAMBDA e : pre.readyState[e.ws] = "OPEN"
                       /\ IsTarget(call, e.clientId))

\* C31: when a broadcast primitive evicts connections while it iterates,
\* every entry that was in the registry when the iteration began is still
\* visited once, in the order of the registry: the sockets the call writes
\* to are, in that order and each once, those of the open entries the call
\* is meant for, and the entries it deletes are, in that order and each
\* once, those whose socket is not open.  (Visiting an open entry the call
\* is not meant for has no effect.)
C31_EvictionSkipsNothing ==
  \A call \in Range(lastOp.calls) :
    lastOp.deleted # <<>> =>
      /\ [j \in 1..Len(SelectSeq(sent, LAMBDA w : w.via = call.fn)) |->
            SelectSeq(sent, LAMBDA w : w.via = call.fn)[j].to]
           = [j \in 1..Len(WrittenEntries(call)) |->
                WrittenEntries(call)[j].ws]
      /\ [j \in 1..Len(lastOp.deleted) |-> lastOp.deleted[j].clientId]
           = [j \in 1..Len(Without(OpenBefore)) |->
                Without(OpenBefore)[j].clientId]

\* broadcast finds the first and the third entry of the registry not open
\* and the second open: it deletes the first, writes to the second and
\* deletes the third
C31_Witness ==
  /\ Calls("broadcast") # {}
  /\ Len(pre.clients) = 3
  /\ pre.readyState[pre.clients[1].ws] = "CLOSING"
  /\ pre.readyState[pre.clients[2].ws] = "OPEN"
  /\ pre.readyState[pre.clients[3].ws] = "CLOSING"
  /\ Len(sent) = 1
  /\ sent[1].to = pre.clients[2].ws
  /\ Len(lastOp.deleted) = 2


\* a handler's validation has rejected the message of a registered sender
RejectedByValidation == Parsed /\ WasRegistered(Sender) /\ lastOp.caught = 1

\* C32: a state-update message rejected by validation leaves the registry
\* and every subscription set as they were: this.clients.delete is not
\* called, a connection whose socket is not open keeps its entry, no
\* broadcast primitive is called, and the only frame written is the error
\* reply to the sender (none when the sender's socket is not open).
C32_RejectionChangesNothing ==
  RejectedByValidation =>
    /\ NothingChanged
    /\ lastOp.deleted = <<>>
    /\ Unwritable \subseteq MapKeys(clients)
    /\ lastOp.calls = <<>>
    /\ \A j \in 1..Len(sent) :
         /\ j = 1
         /\ IsError(j)
         /\ sent[j].via = "sendToClient"
         /\ sent[j].to = lastOp.ws
    /\ WasOpen(Sender) => Len(sent) = 1

\* an open connection's speed_update is rejected while a closing connection
\* is in the registry: the closing connection keeps its entry
C32_Witness ==
  /\ RejectedByValidation
  /\ Tag = Str("speed_update")
  /\ WasOpen(Sender)
  /\ Unwritable # {}
  /\ Unwritable \subseteq MapKeys(clients)
  /\ Len(sent) = 1


\* C33: no connection is written a frame whose source is its own id: the
\* sender is not among the recipients of the message it caused to be
\* relayed.  (Violated: R2's handleZoneEntered passes 'zone_entered' for the
\* id to exclude, and R1 relays sorted and unsorted objects updates with
\* broadcastToSubscription, which excludes nobody.)
C33_NeverOwnSource ==
  \A j \in 1..Len(sent) :
    Field(j, "source") # IdStr(clientIdOf[sent[j].to])


\* the frames a call of a broadcast primitive wrote
WrittenBy(call) == SelectSeq(sent, LAMBDA w : w.via = call.fn)

\* C34: a broadcast primitive returns the number of connections it wrote
\* the message to in that call, which is the number of open entries the call
\* is meant for: evicted connections, the excluded sender and non-subscribers
\* are not counted.
C34_ReturnsDeliveries ==
  \A call \in Range(lastOp.calls) :
    /\ call.ret = Len(WrittenBy(call))
    /\ call.ret = Len(WrittenEntries(call))

\* broadcastExcluding over three entries, the open sender, a closing one and
\* an open one: it returns 1
C34_Witness ==
  \E call \in Calls("broadcastExcluding") :
    /\ call.exclude = Sender
    /\ WasOpen(Sender)
    /\ Len(pre.clients) = 3
    /\ Cardinality(Unwritable) = 1
    /\ call.ret = 1


\* C35: the close callback of a connection removes that connection's entry,
\* and its subscription set with it, and leaves every other entry, with its
\* socket and its subscription set, as it was; and a broadcast made when
\* connections have closed still writes to every open connection it is
\* meant for.
C35_CloseRemovesOnlyItself ==
  /\ lastOp.op = "close" =>
       /\ ~MapHas(clients, lastOp.client)
       /\ MapKeys(clients) = MapKeys(pre.clients) \ {lastOp.client}
       /\ \A i \in 1..Len(clients) :
            clients[i] = MapGet(pre.clients, clients[i].clientId)
  /\ \A call \in Range(lastOp.calls) :
       (\E s \in Ids : readyState[s] = "CLOSED") =>
         \A i \in 1..Len(WrittenEntries(call)) :
           WritesBy(call.fn, WrittenEntries(call)[i].ws) # {}

\* a subscribed connection closes while another subscribed connection is
\* registered: the other keeps its entry and its subscriptions
C35_Witness ==
  \E b \in Ids :
    /\ lastOp.op = "close"
    /\ b # lastOp.client
    /\ WasRegistered(lastOp.client)
    /\ SubscriptionsBefore(lastOp.client) # {}
    /\ WasRegistered(b)
    /\ SubscriptionsBefore(b) # {}
    /\ ~MapHas(clients, lastOp.client)
    /\ MapHas(clients, b)
    /\ SubscriptionsAfter(b) = SubscriptionsBefore(b)


\* C36: the subscription set of a registered connection changes only while
\* a subscribe or unsubscribe message sent by that same connection is
\* handled: no message of another connection, no call of the outbound API,
\* no broadcast, no connection and no close of another connection adds a
\* topic to it or takes one out.
C36_SubscriptionIsolation ==
  \A b \in MapKeys(pre.clients) \cap MapKeys(clients) :
    SubscriptionsAfter(b) # SubscriptionsBefore(b) =>
      /\ HasSubscriptions
      /\ Sender = b
      /\ Received("subscribe") \/ Received("unsubscribe")

\* a connection unsubscribes from a topic that another connection is
\* subscribed to: its own set loses the topic, the other's keeps it
C36_Witness ==
  \E b \in MapKeys(clients) \ {Sender} :
    /\ Received("unsubscribe")
    /\ WasRegistered(Sender) /\ WasRegistered(b)
    /\ MapHas(clients, Sender)
    /\ (SubscriptionsBefore(Sender) \ SubscriptionsAfter(Sender))
         \cap SubscriptionsBefore(b) # {}
    /\ SubscriptionsAfter(b) = SubscriptionsBefore(b)


\* the two messages R1 relays by topic, with the property each carries
TopicRelays ==
  {[tag |-> "sorted_objects_update", name |-> "sortedObjectType"],
   [tag |-> "unsorted_objects_update", name |-> "unsortedObjectType"]}

\* the registered entries that were open and subscribed to the topic
SubscribersBefore(topic) ==
  SelectSeq(pre.clients,
            LAMBDA e : pre.readyState[e.ws] = "OPEN"
                       /\ Str(topic) \in e.subscriptions)

C37_Nobody ==
  \E r \in TopicRelays :
    /\ rev = R1 /\ Received(r.tag)
    /\ WasOpen(Sender)
    /\ \E b \in Ids : ~WasOpen(b) /\ WasRegistered(b)
                      /\ Str(r.tag) \in SubscriptionsBefore(b)
    /\ SubscribersBefore(r.tag) = <<>>
    /\ sent = <<>>


\* the callback handled a frame that is the JSON value null: it parses, and
\* reading its type throws when the sender is registered
ReceivedNull ==
  lastOp.op = "message" /\ lastOp.frame.json /\ lastOp.frame.isNull

\* C38: a frame that parses but makes the dispatch throw outside the
\* handlers' try/catch, the JSON value null sent by a registered connection,
\* is caught by the callback's own catch and answered like text that is not
\* JSON: the one frame written is the error 'Invalid JSON format', to the
\* sender (none when the sender's socket is not open); no broadcast
\* primitive is called and the registry and every subscription set stay as
\* they were.  From a connection that is no longer registered the dispatch
\* returns before it reads the type: nothing is thrown and nothing written.
C38_DispatchThrowIsInvalidJson ==
  ReceivedNull =>
    /\ lastOp.calls = <<>>
    /\ lastOp.deleted = <<>>
    /\ NothingChanged
    /\ IF WasRegistered(Sender)
       THEN /\ lastOp.caught = 1
            /\ IF WasOpen(Sender)
               THEN /\ OnlyErrorReply(Sender, Str("Invalid JSON format"))
                    /\ sent[1].message = JSONstringify(InvalidJson)
               ELSE sent = <<>>
       ELSE lastOp.caught = 0 /\ sent = <<>>

\* null from an open connection while another connection is open: the
\* sender alone is written, the 'Invalid JSON format' reply
C38_Witness ==
  \E b \in Ids \ {Sender} :
    /\ ReceivedNull
    /\ WasOpen(Sender) /\ WasOpen(b)
    /\ lastOp.caught = 1
    /\ OnlyErrorReply(Sender, Str("Invalid JSON format"))
    /\ WritesTo(b) = {}

=============================================================================
